---- MODULE Spec2Model ----
(***************************************************************************)
(* The event dispatch runtime of libinput.c (OpenBSD wscons port): the     *)
(* growable circular event queue, the kqueue-backed source registry and    *)
(* its dispatch pass, the reference-counted context/seat/device/event      *)
(* graph, and the per-seat press-count table.                              *)
(***************************************************************************)
EXTENDS Integers, Sequences, FiniteSets, TLC

(* ------------------------------ bounds -------------------------------- *)
\* event records allocated in one run
MaxEvents == 11
\* seats created in one run
MaxSeats == 2
\* devices attached in one run
MaxDevices == 3
\* sources registered in one run
MaxSources == 2
\* references a caller holds on one object beyond the initial one
MaxRefs == 1

(* ------------------------- program constants -------------------------- *)
\* libinput_init: libinput->events_len = 4
InitialEventsLen == 4
\* input.h: #define KEY_MAX 255
KEY_MAX == 255
\* input.h: #define BTN_LEFT 1
BTN_LEFT == 1
\* libinput_dispatch: struct kevent kev[1]
KevLen == 1
\* libinput_remove_source: source->fd = -1
FdInactive == -1

\* seat->button_count[KEY_CNT], KEY_CNT = KEY_MAX+1
Codes == 0..KEY_MAX
States == {"PRESSED", "RELEASED"}

VARIABLES
    events,               \* libinput->events: the backing array (slot i at index i+1; 0 = no handle)
    events_len,           \* libinput->events_len
    events_count,         \* libinput->events_count
    events_in,            \* libinput->events_in
    events_out,           \* libinput->events_out
    evt,                  \* the event records allocated so far (handle = index)
    evst,                 \* per event record: "queued", "held", "destroyed", "dropped"
    refcount,             \* libinput->refcount; 0 = context destroyed
    seat_list,            \* libinput->seat_list, head first
    seats,                \* the seat records allocated so far
    devices,              \* the device records allocated so far
    sources,              \* the source records allocated so far
    kq,                   \* sources registered with the kqueue (EVFILT_READ knotes)
    source_destroy_list,  \* libinput->source_destroy_list, head first
    pc,                   \* position of libinput_dispatch: "idle", "loop", "callback";
                          \* "aborted" once the process called abort()
    kev,                  \* readiness results retrieved by the current pass
    pass,                 \* history: the sources ready when the pass polled, the callbacks it invoked
    posted,               \* history: handles stored in the queue, in order
    drained,              \* history: handles returned by libinput_get_event, in order
    lastCall,             \* history: the last call made and what it returned
    ub                    \* undefined behaviour that has happened (use after free, double free)

qvars == <<events, events_len, events_count, events_in, events_out>>
evars == <<evt, evst, posted, drained>>
gvars == <<seat_list, seats, devices>>
svars == <<sources, kq, source_destroy_list, pc, kev, pass>>
vars == <<events, events_len, events_count, events_in, events_out, evt, evst,
          refcount, seat_list, seats, devices, sources, kq,
          source_destroy_list, pc, kev, pass, posted, drained, lastCall, ub>>

(* ------------------------------ helpers ------------------------------- *)
\* list_insert that links the element at the tail of the list
ListInsertAtTail(list, elm) == Append(list, elm)

\* list_insert(list, elm): elm becomes the first element after the sentinel
list_insert(list, elm) == <<elm>> \o list

\* list_remove(elm)
list_remove(list, elm) == SelectSeq(list, LAMBDA x : x # elm)

Call(op, arg, ret) == [op |-> op, arg |-> arg, ret |-> ret]

\* the caller may use the context: it is not destroyed and nothing undefined happened
Alive == refcount > 0 /\ ub = {}

\* the single thread is in application code or inside a source callback
AppTurn == pc \in {"idle", "callback"}

(* --------------------------- construction ----------------------------- *)
\* libinput_init
Init ==
    /\ events = [i \in 1..InitialEventsLen |-> 0]
    /\ events_len = InitialEventsLen
    /\ events_count = 0
    /\ events_in = 0
    /\ events_out = 0
    /\ evt = <<>>
    /\ evst = <<>>
    /\ refcount = 1
    /\ seat_list = <<>>
    /\ seats = <<>>
    /\ devices = <<>>
    /\ sources = <<>>
    /\ kq = {}
    /\ source_destroy_list = <<>>
    /\ pc = "idle"
    /\ kev = <<>>
    /\ pass = [ready |-> {}, invoked |-> <<>>]
    /\ posted = <<>>
    /\ drained = <<>>
    /\ lastCall = Call("libinput_init", 0, 0)
    /\ ub = {}

(* -------------------------- seats and devices -------------------------- *)
\* the graph the reference-counting functions work on; log collects the records
\* one call destroys, in the order in which their destruction begins, each
\* with the reference count it has at that moment
G == [devices |-> devices, seats |-> seats, seat_list |-> seat_list, ub |-> ub,
      log |-> <<>>]

Freed(kind, id, count) == [kind |-> kind, id |-> id, refcount |-> count]

SetG(g) ==
    /\ devices' = g.devices
    /\ seats' = g.seats
    /\ seat_list' = g.seat_list
    /\ ub' = g.ub

\* libinput_seat_destroy
libinput_seat_destroy(g, s) ==
    IF g.seats[s].st = "freed"
    THEN [g EXCEPT !.ub = @ \cup {"seat_double_free"}]
    ELSE [g EXCEPT !.seat_list = list_remove(@, s),
                   !.seats[s].st = "freed",
                   !.log = Append(@, Freed("seat", s, g.seats[s].refcount))]

\* libinput_seat_unref that destroys the seat on every release
SeatUnrefDestroysAlways(g, s) ==
    IF g.seats[s].st = "freed" \/ g.seats[s].refcount <= 0
    THEN [g EXCEPT !.ub = @ \cup {"seat_use_after_free"}]
    ELSE libinput_seat_destroy([g EXCEPT !.seats[s].refcount = @ - 1], s)

\* libinput_seat_unref
libinput_seat_unref(g, s) ==
    IF g.seats[s].st = "freed" \/ g.seats[s].refcount <= 0
    THEN [g EXCEPT !.ub = @ \cup {"seat_use_after_free"}]
    ELSE LET g1 == [g EXCEPT !.seats[s].refcount = @ - 1]
         IN IF g1.seats[s].refcount = 0
            THEN libinput_seat_destroy(g1, s)
            ELSE g1

\* libinput_device_destroy that clears the seat's press counts
DeviceDestroyClearsCounts(g, d) ==
    LET s == g.devices[d].seat
        g1 == [g EXCEPT !.seats[s].devices_list = list_remove(@, d),
                        !.seats[s].button_count = [c \in Codes |-> 0],
                        !.log = Append(@, Freed("device", d, g.devices[d].refcount))]
        g2 == libinput_seat_unref(g1, s)
    IN [g2 EXCEPT !.devices[d].st = "freed"]

\* libinput_device_destroy
libinput_device_destroy(g, d) ==
    LET s == g.devices[d].seat
        g1 == [g EXCEPT !.seats[s].devices_list = list_remove(@, d),
                        !.log = Append(@, Freed("device", d, g.devices[d].refcount))]
        g2 == libinput_seat_unref(g1, s)
    IN [g2 EXCEPT !.devices[d].st = "freed"]

\* libinput_device_unref that destroys the device while one reference is left
DeviceUnrefDestroysAtOne(g, d) ==
    IF g.devices[d].st = "freed" \/ g.devices[d].refcount <= 0
    THEN [g EXCEPT !.ub = @ \cup {"device_use_after_free"}]
    ELSE LET g1 == [g EXCEPT !.devices[d].refcount = @ - 1]
         IN IF g1.devices[d].refcount <= 1
            THEN libinput_device_destroy(g1, d)
            ELSE g1

\* libinput_device_unref
libinput_device_unref(g, d) ==
    IF g.devices[d].st = "freed" \/ g.devices[d].refcount <= 0
    THEN [g EXCEPT !.ub = @ \cup {"device_use_after_free"}]
    ELSE LET g1 == [g EXCEPT !.devices[d].refcount = @ - 1]
         IN IF g1.devices[d].refcount = 0
            THEN libinput_device_destroy(g1, d)
            ELSE g1

\* libinput_seat_init
SeatInit ==
    /\ Alive /\ AppTurn
    /\ Len(seats) < MaxSeats
    /\ LET s == Len(seats) + 1
       IN /\ seats' = Append(seats, [st |-> "live", refcount |-> 1, ext |-> 1,
                                      devices_list |-> <<>>,
                                      button_count |-> [c \in Codes |-> 0]])
          /\ seat_list' = list_insert(seat_list, s)
          /\ lastCall' = Call("libinput_seat_init", s, 0)
    /\ UNCHANGED <<qvars, evars, svars, refcount, devices, ub>>

\* the glue attaching a device to a seat: libinput_device_init, then the
\* device takes a reference on its seat and joins the seat's device list
DeviceAttach(s, name) ==
    /\ Alive /\ AppTurn
    /\ Len(devices) < MaxDevices
    /\ s \in DOMAIN seats /\ seats[s].st = "live"
    /\ LET d == Len(devices) + 1
       IN /\ devices' = Append(devices, [st |-> "live", refcount |-> 1, ext |-> 1,
                                          seat |-> s, devname |-> name])
          /\ seats' = [seats EXCEPT ![s].refcount = @ + 1,
                                    ![s].devices_list = list_insert(@, d)]
          /\ lastCall' = Call("libinput_device_init", d, 0)
    /\ UNCHANGED <<qvars, evars, svars, refcount, seat_list, ub>>

(* ----------------------------- event queue ----------------------------- *)
\* realloc(events, events_len * sizeof *events): the old slots are kept, the new ones hold no handle
realloc(arr, new_len) == [i \in 1..new_len |-> IF i <= Len(arr) THEN arr[i] ELSE 0]

\* memmove(arr + dst, arr + src, n)
memmove(arr, dst, src, n) ==
    [i \in 1..Len(arr) |->
        IF i - 1 >= dst /\ i - 1 < dst + n THEN arr[(i - 1) - dst + src + 1] ELSE arr[i]]

\* a slip in Relocate: the tail cursor is not moved to the old end when it had wrapped to 0
RelocateKeepsIn(arr, new_len) ==
    IF events_count > 0 /\ events_out >= events_in /\ events_in # 0
    THEN LET move_len == events_len - events_out
             new_out == new_len - move_len
         IN [events |-> memmove(arr, new_out, events_out, move_len),
             events_in |-> events_in, events_out |-> new_out]
    ELSE [events |-> arr, events_in |-> events_in, events_out |-> events_out]

\* a slip in Relocate: the wrapped segment is not moved to the end of the grown array
RelocateNoMove(arr, new_len) ==
    IF events_count > 0 /\ events_in = 0
    THEN [events |-> arr, events_in |-> events_len, events_out |-> events_out]
    ELSE [events |-> arr, events_in |-> events_in, events_out |-> events_out]

\* libinput_post_event, lines 1351-1361: relocation of the wrapped segment after the array grew
Relocate(arr, new_len) ==
    IF events_count > 0 /\ events_in = 0
    THEN [events |-> arr, events_in |-> events_len, events_out |-> events_out]
    ELSE IF events_count > 0 /\ events_out >= events_in
    THEN LET move_len == events_len - events_out
             new_out == new_len - move_len
         IN [events |-> memmove(arr, new_out, events_out, move_len),
             events_in |-> events_in, events_out |-> new_out]
    ELSE [events |-> arr, events_in |-> events_in, events_out |-> events_out]

\* libinput_post_event that takes the device reference before it grows the array
PostEventRefsFirst(e, d, reallocOk) ==
    LET count == events_count + 1
        grow == count > events_len
        new_len == IF grow THEN events_len * 2 ELSE events_len
        r == IF grow
             THEN Relocate(realloc(events, new_len), new_len)
             ELSE [events |-> events, events_in |-> events_in, events_out |-> events_out]
    IN IF grow /\ ~reallocOk
       THEN /\ UNCHANGED <<qvars, posted>>
            /\ devices' = [devices EXCEPT ![d].refcount = @ + 1]
            /\ evst' = Append(evst, "dropped")
       ELSE /\ events_len' = new_len
            /\ events_out' = r.events_out
            /\ devices' = [devices EXCEPT ![d].refcount = @ + 1]
            /\ events_count' = count
            /\ events' = [r.events EXCEPT ![r.events_in + 1] = e]
            /\ events_in' = (r.events_in + 1) % new_len
            /\ evst' = Append(evst, "queued")
            /\ posted' = Append(posted, e)

\* libinput_post_event that advances the tail cursor without the modulo
PostEventNoWrap(e, d, reallocOk) ==
    LET count == events_count + 1
        grow == count > events_len
        new_len == IF grow THEN events_len * 2 ELSE events_len
        r == IF grow
             THEN Relocate(realloc(events, new_len), new_len)
             ELSE [events |-> events, events_in |-> events_in, events_out |-> events_out]
    IN IF grow /\ ~reallocOk
       THEN /\ UNCHANGED <<qvars, posted, devices>>
            /\ evst' = Append(evst, "dropped")
       ELSE /\ events_len' = new_len
            /\ events_out' = r.events_out
            /\ devices' = [devices EXCEPT ![d].refcount = @ + 1]
            /\ events_count' = count
            /\ events' = [r.events EXCEPT ![r.events_in + 1] = e]
            /\ events_in' = r.events_in + 1
            /\ evst' = Append(evst, "queued")
            /\ posted' = Append(posted, e)

\* libinput_post_event(libinput, event) for the event record with handle e of
\* device d; reallocOk: whether realloc succeeds should the array have to grow
libinput_post_event(e, d, reallocOk) ==
    LET count == events_count + 1
        grow == count > events_len
        new_len == IF grow THEN events_len * 2 ELSE events_len
        r == IF grow
             THEN Relocate(realloc(events, new_len), new_len)
             ELSE [events |-> events, events_in |-> events_in, events_out |-> events_out]
    IN IF grow /\ ~reallocOk
       THEN /\ UNCHANGED <<qvars, posted, devices>>
            /\ evst' = Append(evst, "dropped")
       ELSE /\ events_len' = new_len
            /\ events_out' = r.events_out
            /\ devices' = [devices EXCEPT ![d].refcount = @ + 1]
            /\ events_count' = count
            /\ events' = [r.events EXCEPT ![r.events_in + 1] = e]
            /\ events_in' = (r.events_in + 1) % new_len
            /\ evst' = Append(evst, "queued")
            /\ posted' = Append(posted, e)

\* libinput_device_has_capability
libinput_device_has_capability(d, cap) ==
    CASE cap = "POINTER" -> devices[d].devname = "/dev/wsmouse"
      [] cap = "KEYBOARD" -> devices[d].devname = "/dev/wskbd"
      [] OTHER -> FALSE

\* device_has_cap that lets every device pass
DeviceHasCapAlways(d, cap) == TRUE

\* device_has_cap
device_has_cap(d, cap) == libinput_device_has_capability(d, cap)

\* a decoder may notify for a device it still owns
Notifiable(d) ==
    /\ Alive /\ AppTurn
    /\ d \in DOMAIN devices
    /\ devices[d].st = "live"
    /\ Len(evt) < MaxEvents

\* update_seat_key_count without the guard against a release at count zero
UpdateKeyCountNoGuard(button_count, key, state) ==
    CASE state = "PRESSED" ->
            [table |-> [button_count EXCEPT ![key] = @ + 1], ret |-> button_count[key] + 1]
      [] OTHER ->
            [table |-> [button_count EXCEPT ![key] = @ - 1], ret |-> button_count[key] - 1]

\* update_seat_button_count returning the count before the update (x++ for ++x)
UpdateButtonCountOld(button_count, button, state) ==
    CASE state = "PRESSED" ->
            [table |-> [button_count EXCEPT ![button] = @ + 1], ret |-> button_count[button]]
      [] OTHER ->
            IF button_count[button] = 0
            THEN [table |-> button_count, ret |-> 0]
            ELSE [table |-> [button_count EXCEPT ![button] = @ - 1],
                  ret |-> button_count[button]]

\* update_seat_key_count: the table after the call and the value returned
\* (uint32_t entries; a run notifies far fewer than 2^32 presses, so ++ never wraps)
update_seat_key_count(button_count, key, state) ==
    CASE state = "PRESSED" ->
            LET n == button_count[key] + 1
            IN [table |-> [button_count EXCEPT ![key] = n], ret |-> n]
      [] state = "RELEASED" ->
            IF button_count[key] = 0
            THEN [table |-> button_count, ret |-> 0]
            ELSE [table |-> [button_count EXCEPT ![key] = @ - 1],
                  ret |-> button_count[key] - 1]
      [] OTHER -> [table |-> button_count, ret |-> 0]

\* update_seat_button_count: the table after the call and the value returned
update_seat_button_count(button_count, button, state) ==
    CASE state = "PRESSED" ->
            LET n == button_count[button] + 1
            IN [table |-> [button_count EXCEPT ![button] = n], ret |-> n]
      [] state = "RELEASED" ->
            IF button_count[button] = 0
            THEN [table |-> button_count, ret |-> 0]
            ELSE [table |-> [button_count EXCEPT ![button] = @ - 1],
                  ret |-> button_count[button] - 1]
      [] OTHER -> [table |-> button_count, ret |-> 0]

\* keyboard_notify_key that updates the seat's table before it looks at the
\* capability
KeyboardNotifyKeyCountsFirst(d, key, state) ==
    /\ Notifiable(d)
    /\ LET s == devices[d].seat
           u == update_seat_key_count(seats[s].button_count, key, state)
       IN IF ~device_has_cap(d, "KEYBOARD")
          THEN /\ seats' = [seats EXCEPT ![s].button_count = u.table]
               /\ lastCall' = Call("keyboard_notify_key", d, 0)
               /\ UNCHANGED <<qvars, evars, devices>>
          ELSE LET e == Len(evt) + 1
               IN /\ seats' = [seats EXCEPT ![s].button_count = u.table]
                  /\ evt' = Append(evt, [type |-> "KEYBOARD_KEY", device |-> d,
                                         code |-> key, state |-> state,
                                         seat_count |-> u.ret])
                  /\ \E reallocOk \in BOOLEAN : libinput_post_event(e, d, reallocOk)
                  /\ drained' = drained
                  /\ lastCall' = Call("keyboard_notify_key", d, e)
    /\ UNCHANGED <<svars, refcount, seat_list, ub>>

\* keyboard_notify_key counting in one table for the whole context: the
\* update is written to every seat
KeyboardNotifyKeyEverySeat(d, key, state) ==
    /\ Notifiable(d)
    /\ IF ~device_has_cap(d, "KEYBOARD")
       THEN /\ lastCall' = Call("keyboard_notify_key", d, 0)
            /\ UNCHANGED <<qvars, evars, devices, seats>>
       ELSE LET e == Len(evt) + 1
                s == devices[d].seat
                u == update_seat_key_count(seats[s].button_count, key, state)
            IN /\ seats' = [t \in DOMAIN seats |->
                              [seats[t] EXCEPT !.button_count = u.table]]
               /\ evt' = Append(evt, [type |-> "KEYBOARD_KEY", device |-> d,
                                      code |-> key, state |-> state,
                                      seat_count |-> u.ret])
               /\ \E reallocOk \in BOOLEAN : libinput_post_event(e, d, reallocOk)
               /\ drained' = drained
               /\ lastCall' = Call("keyboard_notify_key", d, e)
    /\ UNCHANGED <<svars, refcount, seat_list, ub>>

\* keyboard_notify_key whose events show the seat's current count: the
\* records of the earlier events of the key are rewritten with the new count
KeyboardNotifyKeyLiveCount(d, key, state) ==
    /\ Notifiable(d)
    /\ IF ~device_has_cap(d, "KEYBOARD")
       THEN /\ lastCall' = Call("keyboard_notify_key", d, 0)
            /\ UNCHANGED <<qvars, evars, devices, seats>>
       ELSE LET e == Len(evt) + 1
                s == devices[d].seat
                u == update_seat_key_count(seats[s].button_count, key, state)
            IN /\ seats' = [seats EXCEPT ![s].button_count = u.table]
               /\ evt' = Append([i \in DOMAIN evt |->
                                   IF evt[i].type = "KEYBOARD_KEY" /\ evt[i].code = key
                                   THEN [evt[i] EXCEPT !.seat_count = u.ret]
                                   ELSE evt[i]],
                                [type |-> "KEYBOARD_KEY", device |-> d,
                                 code |-> key, state |-> state,
                                 seat_count |-> u.ret])
               /\ \E reallocOk \in BOOLEAN : libinput_post_event(e, d, reallocOk)
               /\ drained' = drained
               /\ lastCall' = Call("keyboard_notify_key", d, e)
    /\ UNCHANGED <<svars, refcount, seat_list, ub>>

\* keyboard_notify_key
keyboard_notify_key(d, key, state) ==
    /\ Notifiable(d)
    /\ IF ~device_has_cap(d, "KEYBOARD")
       THEN /\ lastCall' = Call("keyboard_notify_key", d, 0)
            /\ UNCHANGED <<qvars, evars, devices, seats>>
       ELSE \E allocOk \in BOOLEAN :
            IF ~allocOk
            THEN /\ lastCall' = Call("keyboard_notify_key", d, -1)
                 /\ UNCHANGED <<qvars, evars, devices, seats>>
            ELSE LET e == Len(evt) + 1
                     s == devices[d].seat
                     u == update_seat_key_count(seats[s].button_count, key, state)
                 IN /\ seats' = [seats EXCEPT ![s].button_count = u.table]
                    /\ evt' = Append(evt, [type |-> "KEYBOARD_KEY", device |-> d,
                                           code |-> key, state |-> state,
                                           seat_count |-> u.ret])
                    /\ \E reallocOk \in BOOLEAN : libinput_post_event(e, d, reallocOk)
                    /\ drained' = drained
                    /\ lastCall' = Call("keyboard_notify_key", d, e)
    /\ UNCHANGED <<svars, refcount, seat_list, ub>>

\* pointer_notify_motion
pointer_notify_motion(d) ==
    /\ Notifiable(d)
    /\ IF ~device_has_cap(d, "POINTER")
       THEN /\ lastCall' = Call("pointer_notify_motion", d, 0)
            /\ UNCHANGED <<qvars, evars, devices>>
       ELSE \E allocOk \in BOOLEAN :
            IF ~allocOk
            THEN /\ lastCall' = Call("pointer_notify_motion", d, -1)
                 /\ UNCHANGED <<qvars, evars, devices>>
            ELSE LET e == Len(evt) + 1
                 IN /\ evt' = Append(evt, [type |-> "POINTER_MOTION", device |-> d,
                                           code |-> 0, state |-> "NONE",
                                           seat_count |-> 0])
                    /\ \E reallocOk \in BOOLEAN : libinput_post_event(e, d, reallocOk)
                    /\ drained' = drained
                    /\ lastCall' = Call("pointer_notify_motion", d, e)
    /\ UNCHANGED <<svars, refcount, seat_list, seats, ub>>

\* pointer_notify_button counting buttons in entries of their own, apart from
\* the keys' (the button's entry is half the table away from the key's)
PointerNotifyButtonOwnEntry(d, button, state) ==
    /\ Notifiable(d)
    /\ IF ~device_has_cap(d, "POINTER")
       THEN /\ lastCall' = Call("pointer_notify_button", d, 0)
            /\ UNCHANGED <<qvars, evars, devices, seats>>
       ELSE LET e == Len(evt) + 1
                s == devices[d].seat
                own == (button + 128) % (KEY_MAX + 1)
                u == update_seat_button_count(seats[s].button_count, own, state)
            IN /\ seats' = [seats EXCEPT ![s].button_count = u.table]
               /\ evt' = Append(evt, [type |-> "POINTER_BUTTON", device |-> d,
                                      code |-> button, state |-> state,
                                      seat_count |-> u.ret])
               /\ \E reallocOk \in BOOLEAN : libinput_post_event(e, d, reallocOk)
               /\ drained' = drained
               /\ lastCall' = Call("pointer_notify_button", d, e)
    /\ UNCHANGED <<svars, refcount, seat_list, ub>>

\* pointer_notify_button
pointer_notify_button(d, button, state) ==
    /\ Notifiable(d)
    /\ IF ~device_has_cap(d, "POINTER")
       THEN /\ lastCall' = Call("pointer_notify_button", d, 0)
            /\ UNCHANGED <<qvars, evars, devices, seats>>
       ELSE \E allocOk \in BOOLEAN :
            IF ~allocOk
            THEN /\ lastCall' = Call("pointer_notify_button", d, -1)
                 /\ UNCHANGED <<qvars, evars, devices, seats>>
            ELSE LET e == Len(evt) + 1
                     s == devices[d].seat
                     u == update_seat_button_count(seats[s].button_count, button, state)
                 IN /\ seats' = [seats EXCEPT ![s].button_count = u.table]
                    /\ evt' = Append(evt, [type |-> "POINTER_BUTTON", device |-> d,
                                           code |-> button, state |-> state,
                                           seat_count |-> u.ret])
                    /\ \E reallocOk \in BOOLEAN : libinput_post_event(e, d, reallocOk)
                    /\ drained' = drained
                    /\ lastCall' = Call("pointer_notify_button", d, e)
    /\ UNCHANGED <<svars, refcount, seat_list, ub>>

\* libinput_get_event that advances the head cursor without the modulo
GetEventNoWrap ==
    /\ Alive /\ AppTurn
    /\ IF events_count = 0
       THEN /\ lastCall' = Call("libinput_get_event", 0, 0)
            /\ UNCHANGED <<qvars, evars>>
       ELSE LET e == events[(events_out % events_len) + 1]
            IN /\ events_out' = events_out + 1
               /\ events_count' = events_count - 1
               /\ evst' = [evst EXCEPT ![e] = "held"]
               /\ drained' = Append(drained, e)
               /\ lastCall' = Call("libinput_get_event", 0, e)
               /\ UNCHANGED <<events, events_len, events_in, evt, posted>>
    /\ UNCHANGED <<svars, gvars, refcount, ub>>

\* libinput_get_event that gives the grown array back once the queue is empty
GetEventShrinks ==
    /\ Alive /\ AppTurn
    /\ IF events_count = 0
       THEN /\ lastCall' = Call("libinput_get_event", 0, 0)
            /\ UNCHANGED <<qvars, evars>>
       ELSE LET e == events[events_out + 1]
                empty == events_count = 1
            IN /\ events_out' = IF empty THEN 0 ELSE (events_out + 1) % events_len
               /\ events_in' = IF empty THEN 0 ELSE events_in
               /\ events_len' = IF empty THEN InitialEventsLen ELSE events_len
               /\ events' = IF empty THEN SubSeq(events, 1, InitialEventsLen) ELSE events
               /\ events_count' = events_count - 1
               /\ evst' = [evst EXCEPT ![e] = "held"]
               /\ drained' = Append(drained, e)
               /\ lastCall' = Call("libinput_get_event", 0, e)
               /\ UNCHANGED <<evt, posted>>
    /\ UNCHANGED <<svars, gvars, refcount, ub>>

\* libinput_get_event
libinput_get_event ==
    /\ Alive /\ AppTurn
    /\ IF events_count = 0
       THEN /\ lastCall' = Call("libinput_get_event", 0, 0)
            /\ UNCHANGED <<qvars, evars>>
       ELSE LET e == events[events_out + 1]
            IN /\ events_out' = (events_out + 1) % events_len
               /\ events_count' = events_count - 1
               /\ evst' = [evst EXCEPT ![e] = "held"]
               /\ drained' = Append(drained, e)
               /\ lastCall' = Call("libinput_get_event", 0, e)
               /\ UNCHANGED <<events, events_len, events_in, evt, posted>>
    /\ UNCHANGED <<svars, gvars, refcount, ub>>

\* libinput_next_event_type that reads the slot before the tail cursor
NextEventTypeOfTail ==
    /\ Alive /\ AppTurn
    /\ lastCall' = Call("libinput_next_event_type", 0,
                        IF events_count = 0 THEN "NONE"
                        ELSE evt[events[((events_in + events_len - 1) % events_len) + 1]].type)
    /\ UNCHANGED <<qvars, evars, svars, gvars, refcount, ub>>

\* libinput_next_event_type
libinput_next_event_type ==
    /\ Alive /\ AppTurn
    /\ lastCall' = Call("libinput_next_event_type", 0,
                        IF events_count = 0 THEN "NONE"
                        ELSE evt[events[events_out + 1]].type)
    /\ UNCHANGED <<qvars, evars, svars, gvars, refcount, ub>>

\* libinput_event_destroy, called by the consumer on an event it got
libinput_event_destroy(e) ==
    /\ ub = {} /\ AppTurn
    /\ e \in DOMAIN evst /\ evst[e] = "held"
    /\ evst' = [evst EXCEPT ![e] = "destroyed"]
    /\ SetG(libinput_device_unref(G, evt[e].device))
    /\ lastCall' = Call("libinput_event_destroy", e, 0)
    /\ UNCHANGED <<qvars, svars, evt, posted, drained, refcount>>

(* ------------------------------ queue view ---------------------------- *)
\* the handles a consumer will get, in order: events_count slots from events_out, cyclically
Pending == [i \in 1..events_count |-> events[((events_out + i - 1) % events_len) + 1]]

(* ------------------------- reference management ----------------------- *)
\* libinput_device_ref, by a caller that can reach the device
DeviceRef(d) ==
    /\ ub = {} /\ AppTurn
    /\ d \in DOMAIN devices /\ devices[d].st = "live"
    /\ devices[d].ext < 1 + MaxRefs
    /\ devices' = [devices EXCEPT ![d].refcount = @ + 1, ![d].ext = @ + 1]
    /\ lastCall' = Call("libinput_device_ref", d, d)
    /\ UNCHANGED <<qvars, evars, svars, refcount, seat_list, seats, ub>>

\* libinput_device_unref, by a caller releasing a reference it holds
DeviceUnref(d) ==
    /\ ub = {} /\ AppTurn
    /\ d \in DOMAIN devices /\ devices[d].ext > 0
    /\ LET g == libinput_device_unref([G EXCEPT !.devices[d].ext = @ - 1], d)
       IN /\ SetG(g)
          /\ lastCall' = Call("libinput_device_unref", d,
                               IF g.devices[d].st = "freed" THEN 0 ELSE d)
    /\ UNCHANGED <<qvars, evars, svars, refcount>>

\* libinput_seat_ref, by a caller that can reach the seat
SeatRef(s) ==
    /\ ub = {} /\ AppTurn
    /\ s \in DOMAIN seats /\ seats[s].st = "live"
    /\ seats[s].ext < 1 + MaxRefs
    /\ seats' = [seats EXCEPT ![s].refcount = @ + 1, ![s].ext = @ + 1]
    /\ lastCall' = Call("libinput_seat_ref", s, s)
    /\ UNCHANGED <<qvars, evars, svars, refcount, seat_list, devices, ub>>

\* libinput_seat_unref, by a caller releasing a reference it holds
SeatUnref(s) ==
    /\ ub = {} /\ AppTurn
    /\ s \in DOMAIN seats /\ seats[s].ext > 0
    /\ LET g == libinput_seat_unref([G EXCEPT !.seats[s].ext = @ - 1], s)
       IN /\ SetG(g)
          /\ lastCall' = Call("libinput_seat_unref", s,
                               IF g.seats[s].st = "freed" THEN 0 ELSE s)
    /\ UNCHANGED <<qvars, evars, svars, refcount>>

\* libinput_ref
LibinputRef ==
    /\ Alive /\ AppTurn
    /\ refcount < 1 + MaxRefs
    /\ refcount' = refcount + 1
    /\ lastCall' = Call("libinput_ref", 0, 1)
    /\ UNCHANGED <<qvars, evars, svars, gvars, ub>>

\* libinput_drop_destroyed_sources: the source records after every source on
\* the list was freed (the list itself is reset by libinput_drop_destroyed_sources)
RECURSIVE FreeSources(_, _)
FreeSources(srcs, list) ==
    IF list = <<>> THEN srcs
    ELSE FreeSources([srcs EXCEPT ![Head(list)].st = "freed",
                                  ![Head(list)].nfree = @ + 1], Tail(list))

\* libinput_drop_destroyed_sources without the list_init that resets the list
DropKeepsList(list) == list

\* libinput_drop_destroyed_sources, line 924: list_init(&libinput->source_destroy_list)
DropResetsList(list) == <<>>

\* libinput_drop_destroyed_sources that frees every source record there is,
\* listed or not
DropFreesEverySource ==
    /\ sources' = [k \in DOMAIN sources |->
                     IF sources[k].st = "live"
                     THEN [sources[k] EXCEPT !.st = "freed", !.nfree = @ + 1]
                     ELSE sources[k]]
    /\ source_destroy_list' = DropResetsList(source_destroy_list)

\* libinput_drop_destroyed_sources
libinput_drop_destroyed_sources ==
    /\ sources' = FreeSources(sources, source_destroy_list)
    /\ source_destroy_list' = DropResetsList(source_destroy_list)

\* libinput_unref, lines 949-950: every queued event is dequeued and destroyed
\* (libinput_event_destroy: the device reference is released, the event freed)
RECURSIVE DestroyQueued(_, _)
DestroyQueued(g, q) ==
    IF q = <<>> \/ g.ub # {} THEN g
    ELSE LET g1 == [g EXCEPT !.log = Append(@, Freed("event", Head(q), 0))]
         IN DestroyQueued(libinput_device_unref(g1, evt[Head(q)].device), Tail(q))



\* libinput_drop_destroyed_sources: the sources it frees, in list order
FreedSources(list) == [i \in DOMAIN list |-> Freed("source", list[i], 0)]

\* libinput_unref, lines 955-958: every device on the seat's list is destroyed
RECURSIVE DestroyDevices(_, _)
DestroyDevices(g, dl) ==
    IF dl = <<>> \/ g.ub # {} THEN g
    ELSE DestroyDevices(libinput_device_destroy(g, Head(dl)), Tail(dl))

\* libinput_unref, lines 954-961: every seat on the context's list is destroyed
RECURSIVE DestroySeats(_, _)
DestroySeats(g, sl) ==
    IF sl = <<>> \/ g.ub # {} THEN g
    ELSE LET s == Head(sl)
             g1 == DestroyDevices(g, g.seats[s].devices_list)
             g2 == IF g1.ub # {} THEN g1
                   ELSE IF g1.seats[s].st = "freed"
                   THEN [g1 EXCEPT !.ub = @ \cup {"seat_use_after_free"}]
                   ELSE libinput_seat_destroy(g1, s)
         IN DestroySeats(g2, Tail(sl))

\* libinput_unref that destroys the seats and devices before it drains the queue
LibinputUnrefSeatsFirst ==
    /\ Alive /\ pc = "idle"
    /\ refcount' = refcount - 1
    /\ IF refcount - 1 > 0
       THEN /\ lastCall' = Call("libinput_unref", 0, 1)
            /\ UNCHANGED <<qvars, evars, svars, gvars, ub>>
       ELSE LET q == Pending
                g1 == DestroySeats(G, seat_list)
                g2 == DestroyQueued(g1, q)
            IN /\ SetG(g2)
               /\ evst' = [e \in DOMAIN evst |->
                              IF evst[e] = "queued" THEN "destroyed" ELSE evst[e]]
               /\ drained' = drained \o q
               /\ events_out' = (events_out + events_count) % events_len
               /\ events_count' = 0
               /\ libinput_drop_destroyed_sources
               /\ lastCall' = Call("libinput_unref",
                                    g2.log \o FreedSources(source_destroy_list), 0)
               /\ kq' = {}
               /\ UNCHANGED <<events, events_len, events_in, evt, posted, pc, kev, pass>>

\* libinput_unref; close(libinput->kq) ends the multiplexer, and with it
\* every registration it held
LibinputUnref ==
    /\ Alive /\ pc = "idle"
    /\ refcount' = refcount - 1
    /\ IF refcount - 1 > 0
       THEN /\ lastCall' = Call("libinput_unref", 0, 1)
            /\ UNCHANGED <<qvars, evars, svars, gvars, ub>>
       ELSE LET q == Pending
                g1 == DestroyQueued(G, q)
                g2 == DestroySeats(g1, g1.seat_list)
            IN /\ SetG(g2)
               /\ evst' = [e \in DOMAIN evst |->
                              IF evst[e] = "queued" THEN "destroyed" ELSE evst[e]]
               /\ drained' = drained \o q
               /\ events_out' = (events_out + events_count) % events_len
               /\ events_count' = 0
               /\ libinput_drop_destroyed_sources
               /\ lastCall' = Call("libinput_unref",
                                    g2.log \o FreedSources(source_destroy_list), 0)
               /\ kq' = {}
               /\ UNCHANGED <<events, events_len, events_in, evt, posted, pc, kev, pass>>

\* libinput_unref(NULL), lines 941-942
LibinputUnrefNull ==
    /\ ub = {} /\ AppTurn
    /\ lastCall' = Call("libinput_unref(NULL)", 0, 0)
    /\ UNCHANGED <<qvars, evars, svars, gvars, refcount, ub>>

(* --------------------------- sources, dispatch ------------------------- *)
\* libinput_add_fd that returns NULL on a rejected descriptor without free(source)
AddFdLeaksOnReject ==
    /\ Alive /\ AppTurn
    /\ Len(sources) < MaxSources
    /\ LET k == Len(sources) + 1
       IN \E outcome \in {"ok", "kevent_fails", "calloc_fails"} :
            CASE outcome = "ok" ->
                    /\ sources' = Append(sources, [st |-> "live", fd |-> k + 2, nfree |-> 0])
                    /\ kq' = kq \cup {k}
                    /\ lastCall' = Call("libinput_add_fd", k, k)
              [] outcome = "kevent_fails" ->
                    /\ sources' = Append(sources, [st |-> "live", fd |-> k + 2, nfree |-> 0])
                    /\ kq' = kq
                    /\ lastCall' = Call("libinput_add_fd", k, 0)
              [] outcome = "calloc_fails" ->
                    /\ lastCall' = Call("libinput_add_fd", 0, 0)
                    /\ UNCHANGED <<sources, kq>>
    /\ UNCHANGED <<qvars, evars, gvars, refcount, source_destroy_list, pc, kev, pass, ub>>

\* libinput_add_fd; the descriptor of the k-th source is k + 2
AddFd ==
    /\ Alive /\ AppTurn
    /\ Len(sources) < MaxSources
    /\ LET k == Len(sources) + 1
       IN \E outcome \in {"ok", "kevent_fails", "calloc_fails"} :
            CASE outcome = "ok" ->
                    /\ sources' = Append(sources, [st |-> "live", fd |-> k + 2, nfree |-> 0])
                    /\ kq' = kq \cup {k}
                    /\ lastCall' = Call("libinput_add_fd", k, k)
              [] outcome = "kevent_fails" ->
                    /\ sources' = Append(sources, [st |-> "freed", fd |-> k + 2, nfree |-> 1])
                    /\ kq' = kq
                    /\ lastCall' = Call("libinput_add_fd", k, 0)
              [] outcome = "calloc_fails" ->
                    /\ lastCall' = Call("libinput_add_fd", 0, 0)
                    /\ UNCHANGED <<sources, kq>>
    /\ UNCHANGED <<qvars, evars, gvars, refcount, source_destroy_list, pc, kev, pass, ub>>

\* libinput_remove_source that only queues the source for destruction
RemoveSourceOnlyQueues(k) ==
    /\ Alive /\ AppTurn
    /\ k \in DOMAIN sources /\ sources[k].st = "live"
    /\ k \in kq /\ sources[k].nfree = 0
    /\ \A i \in DOMAIN source_destroy_list : source_destroy_list[i] # k
    /\ source_destroy_list' = list_insert(source_destroy_list, k)
    /\ lastCall' = Call("libinput_remove_source", k, 0)
    /\ UNCHANGED <<qvars, evars, gvars, refcount, sources, kq, pc, kev, pass, ub>>

\* libinput_remove_source that frees the source at once
RemoveSourceFrees(k) ==
    /\ Alive /\ AppTurn
    /\ k \in DOMAIN sources /\ sources[k].st = "live" /\ sources[k].fd # FdInactive
    /\ kq' = kq \ {k}
    /\ sources' = [sources EXCEPT ![k].fd = FdInactive, ![k].st = "freed",
                                  ![k].nfree = @ + 1]
    /\ lastCall' = Call("libinput_remove_source", k, 0)
    /\ UNCHANGED <<qvars, evars, gvars, refcount, source_destroy_list, pc, kev, pass, ub>>

\* libinput_remove_source, by the owner of a source that is still registered
libinput_remove_source(k) ==
    /\ Alive /\ AppTurn
    /\ k \in DOMAIN sources /\ sources[k].st = "live" /\ sources[k].fd # FdInactive
    /\ kq' = kq \ {k}
    /\ sources' = [sources EXCEPT ![k].fd = FdInactive]
    /\ source_destroy_list' = list_insert(source_destroy_list, k)
    /\ lastCall' = Call("libinput_remove_source", k, 0)
    /\ UNCHANGED <<qvars, evars, gvars, refcount, pc, kev, pass, ub>>

\* the orders in which kevent may report a set of ready sources
Orders(S) == {q \in [1..Cardinality(S) -> S] : \A i, j \in DOMAIN q : i # j => q[i] # q[j]}

\* kevent(kq, NULL, 0, kev, nevents, &ts): the sets of results it may retrieve
\* when the sources in ready are readable: as many as fit into kev
Retrieved(ready, nevents) ==
    {r \in SUBSET ready :
        Cardinality(r) = IF Cardinality(ready) < nevents THEN Cardinality(ready) ELSE nevents}

\* libinput_dispatch that goes on to reclaim the pending sources after a failed poll
DispatchPollFailureReclaims ==
    /\ Alive /\ pc = "idle"
    /\ \/ /\ lastCall' = Call("libinput_dispatch", 0, -1)
          /\ libinput_drop_destroyed_sources
          /\ UNCHANGED <<pc, kev, pass>>
       \/ /\ \E ready \in SUBSET kq : \E r \in Retrieved(ready, KevLen) :
                /\ \E q \in Orders(r) : kev' = q
                /\ pass' = [ready |-> ready, invoked |-> <<>>]
                /\ pc' = "loop"
                /\ lastCall' = Call("kevent", 0, Cardinality(r))
          /\ UNCHANGED <<sources, source_destroy_list>>
    /\ UNCHANGED <<qvars, evars, gvars, refcount, kq, ub>>

\* libinput_dispatch, lines 1121-1123: the zero-timeout kevent call; any set
\* of registered sources may be readable at that moment
DispatchPoll ==
    /\ Alive /\ pc = "idle"
    /\ \/ /\ lastCall' = Call("libinput_dispatch", 0, -1)
          /\ UNCHANGED <<pc, kev, pass>>
       \/ \E ready \in SUBSET kq : \E r \in Retrieved(ready, KevLen) :
             /\ \E q \in Orders(r) : kev' = q
             /\ pass' = [ready |-> ready, invoked |-> <<>>]
             /\ pc' = "loop"
             /\ lastCall' = Call("kevent", 0, Cardinality(r))
    /\ UNCHANGED <<qvars, evars, gvars, refcount, sources, kq, source_destroy_list, ub>>

\* libinput_dispatch, lines 1125-1134: the readiness result kev[i] is processed;
\* Head(kev) is kev[i], and it stays the head while its callback runs
DispatchStep ==
    /\ ub = {} /\ pc = "loop" /\ kev # <<>>
    /\ LET source == Head(kev)
       IN IF sources[source].st = "freed"
          THEN /\ ub' = ub \cup {"source_use_after_free"}
               /\ UNCHANGED <<pc, kev, pass, lastCall>>
          ELSE IF sources[source].fd = FdInactive
          THEN /\ kev' = Tail(kev)
               /\ lastCall' = Call("skip", source, 0)
               /\ UNCHANGED <<pc, pass, ub>>
          ELSE /\ pc' = "callback"
               /\ pass' = [pass EXCEPT !.invoked = Append(@, source)]
               /\ lastCall' = Call("source_dispatch", source, 0)
               /\ UNCHANGED <<kev, ub>>
    /\ UNCHANGED <<qvars, evars, gvars, refcount, sources, kq, source_destroy_list>>

\* the source's callback returns to libinput_dispatch, which goes on with i + 1
CallbackReturn ==
    /\ ub = {} /\ pc = "callback"
    /\ pc' = "loop"
    /\ kev' = Tail(kev)
    /\ lastCall' = Call("callback_return", 0, 0)
    /\ UNCHANGED <<qvars, evars, gvars, refcount, sources, kq, source_destroy_list, pass, ub>>

\* libinput_dispatch that does not leave its loop after the last result
DispatchDoneStaysInLoop ==
    /\ ub = {} /\ pc = "loop" /\ kev = <<>>
    /\ libinput_drop_destroyed_sources
    /\ pc' = "loop"
    /\ lastCall' = Call("libinput_dispatch", 0, 0)
    /\ UNCHANGED <<qvars, evars, gvars, refcount, kq, kev, pass, ub>>

\* libinput_dispatch, lines 1136-1138: the pending sources are reclaimed, 0 is returned
DispatchDone ==
    /\ ub = {} /\ pc = "loop" /\ kev = <<>>
    /\ libinput_drop_destroyed_sources
    /\ pc' = "idle"
    /\ lastCall' = Call("libinput_dispatch", 0, 0)
    /\ UNCHANGED <<qvars, evars, gvars, refcount, kq, kev, pass, ub>>

(* --------------------------- typed accessors --------------------------- *)
\* enum libinput_event_type, as far as the accessors of libinput.c name it
DeviceNotifyTypes == {"DEVICE_ADDED", "DEVICE_REMOVED"}
PointerTypes == {"POINTER_MOTION", "POINTER_MOTION_ABSOLUTE", "POINTER_BUTTON", "POINTER_AXIS"}
TouchSlotTypes == {"TOUCH_DOWN", "TOUCH_UP", "TOUCH_MOTION", "TOUCH_CANCEL"}
TouchTypes == TouchSlotTypes \cup {"TOUCH_FRAME"}
SwipeTypes == {"GESTURE_SWIPE_BEGIN", "GESTURE_SWIPE_UPDATE", "GESTURE_SWIPE_END"}
PinchTypes == {"GESTURE_PINCH_BEGIN", "GESTURE_PINCH_UPDATE", "GESTURE_PINCH_END"}
GestureTypes == SwipeTypes \cup PinchTypes
EventTypes ==
    {"NONE", "KEYBOARD_KEY"} \cup DeviceNotifyTypes \cup PointerTypes \cup TouchTypes
        \cup GestureTypes

\* milliseconds held by the payload field an accessor is called on
MaxPayload == 1
\* payload values: zero, and a time of whole milliseconds
Payloads == {0, 1000 * MaxPayload}

\* the value of a pointer to the event an accessor is called on (NULL is 0)
EventPtr == 1
\* libinput_event_pointer_get_axis_source: return LIBINPUT_POINTER_AXIS_SOURCE_WHEEL
WheelSource == 1

\* check_event_type: whether type_in is among the permitted types (a client
\* bug is logged when it is not)
check_event_type(type_in, permitted) == type_in \in permitted

\* require_event_type that aborts on every type that is not permitted
RequireEventTypeAbortsOnMismatch(type_, retval_, permitted) ==
    IF type_ = "NONE" \/ ~check_event_type(type_, permitted)
    THEN [outcome |-> "abort", ret |-> retval_]
    ELSE [outcome |-> "pass", ret |-> retval_]

\* require_event_type: abort on the NONE tag, return retval_ on a type that
\* is not permitted, let the accessor go on otherwise
require_event_type(type_, retval_, permitted) ==
    IF type_ = "NONE" THEN [outcome |-> "abort", ret |-> retval_]
    ELSE IF ~check_event_type(type_, permitted) THEN [outcome |-> "return", ret |-> retval_]
    ELSE [outcome |-> "pass", ret |-> retval_]

\* us2ms
us2ms(us) == us \div 1000

\* an accessor: its name, whether its body starts with require_event_type,
\* the permitted types and the retval_ it names there, what its body returns
Acc(name, gated, permitted, retval, result) ==
    [name |-> name, gated |-> gated, permitted |-> permitted, retval |-> retval,
     result |-> result]

\* the accessors of libinput.c, lines 237-844 and 1557-1612 (NULL and 0.0 are 0)
CastAccessors ==
    {Acc("libinput_event_get_pointer_event", TRUE, PointerTypes, 0, "event"),
     Acc("libinput_event_get_keyboard_event", TRUE, {"KEYBOARD_KEY"}, 0, "event"),
     Acc("libinput_event_get_touch_event", TRUE, TouchTypes, 0, "event"),
     Acc("libinput_event_get_gesture_event", TRUE, GestureTypes, 0, "event"),
     Acc("libinput_event_get_device_notify_event", TRUE, DeviceNotifyTypes, 0, "event"),
     Acc("libinput_event_device_notify_get_base_event", TRUE, DeviceNotifyTypes, 0, "event"),
     Acc("libinput_event_keyboard_get_base_event", TRUE, {"KEYBOARD_KEY"}, 0, "event"),
     Acc("libinput_event_pointer_get_base_event", TRUE, PointerTypes, 0, "event"),
     Acc("libinput_event_touch_get_base_event", TRUE, TouchTypes, 0, "event"),
     Acc("libinput_event_gesture_get_base_event", FALSE, GestureTypes, 0, "event")}

KeyboardAccessors ==
    {Acc("libinput_event_keyboard_get_time", TRUE, {"KEYBOARD_KEY"}, 0, "ms")}
    \cup {Acc(n, TRUE, {"KEYBOARD_KEY"}, 0, "field") :
            n \in {"libinput_event_keyboard_get_time_usec",
                   "libinput_event_keyboard_get_key",
                   "libinput_event_keyboard_get_key_state",
                   "libinput_event_keyboard_get_seat_key_count"}}

PointerAccessors ==
    {Acc("libinput_event_pointer_get_time", TRUE, PointerTypes, 0, "ms"),
     Acc("libinput_event_pointer_get_time_usec", TRUE, PointerTypes, 0, "field"),
     Acc("libinput_event_pointer_get_axis_source", TRUE, {"POINTER_AXIS"}, 0, "wheel")}
    \cup {Acc(n, TRUE, {"POINTER_MOTION"}, 0, "field") :
            n \in {"libinput_event_pointer_get_dx",
                   "libinput_event_pointer_get_dy",
                   "libinput_event_pointer_get_dx_unaccelerated",
                   "libinput_event_pointer_get_dy_unaccelerated"}}
    \cup {Acc(n, TRUE, {"POINTER_MOTION_ABSOLUTE"}, 0, "minus_one") :
            n \in {"libinput_event_pointer_get_absolute_x",
                   "libinput_event_pointer_get_absolute_y",
                   "libinput_event_pointer_get_absolute_x_transformed",
                   "libinput_event_pointer_get_absolute_y_transformed"}}
    \cup {Acc(n, TRUE, {"POINTER_BUTTON"}, 0, "field") :
            n \in {"libinput_event_pointer_get_button",
                   "libinput_event_pointer_get_button_state",
                   "libinput_event_pointer_get_seat_button_count"}}
    \cup {Acc(n, TRUE, {"POINTER_AXIS"}, 0, "zero") :
            n \in {"libinput_event_pointer_has_axis",
                   "libinput_event_pointer_get_axis_value",
                   "libinput_event_pointer_get_axis_value_discrete"}}

TouchAccessors ==
    {Acc("libinput_event_touch_get_time", TRUE, TouchTypes, 0, "ms"),
     Acc("libinput_event_touch_get_time_usec", TRUE, TouchTypes, 0, "field"),
     Acc("libinput_event_touch_get_slot", TRUE, TouchSlotTypes, 0, "field"),
     Acc("libinput_event_touch_get_seat_slot", TRUE, TouchSlotTypes, 0, "field")}
    \cup {Acc(n, TRUE, {"TOUCH_DOWN", "TOUCH_MOTION"}, 0, "minus_one") :
            n \in {"libinput_event_touch_get_x",
                   "libinput_event_touch_get_x_transformed",
                   "libinput_event_touch_get_y_transformed",
                   "libinput_event_touch_get_y"}}

GestureAccessors ==
    {Acc("libinput_event_gesture_get_time", TRUE, GestureTypes, 0, "ms"),
     Acc("libinput_event_gesture_get_cancelled", TRUE,
         {"GESTURE_PINCH_END", "GESTURE_SWIPE_END"}, 0, "field")}
    \cup {Acc(n, TRUE, GestureTypes, 0, "field") :
            n \in {"libinput_event_gesture_get_time_usec",
                   "libinput_event_gesture_get_finger_count",
                   "libinput_event_gesture_get_dx",
                   "libinput_event_gesture_get_dy",
                   "libinput_event_gesture_get_dx_unaccelerated",
                   "libinput_event_gesture_get_dy_unaccelerated"}}
    \cup {Acc(n, TRUE, PinchTypes, 0, "field") :
            n \in {"libinput_event_gesture_get_scale",
                   "libinput_event_gesture_get_angle_delta"}}

Accessors ==
    CastAccessors \cup KeyboardAccessors \cup PointerAccessors \cup TouchAccessors
        \cup GestureAccessors

AccessorNames == {a.name : a \in Accessors}
AccessorNamed(n) == CHOOSE a \in Accessors : a.name = n

\* what the body of an accessor returns for an event whose payload field is v
AccessorBody(result, v) ==
    CASE result = "event" -> EventPtr
      [] result = "field" -> v
      [] result = "ms" -> us2ms(v)
      [] result = "minus_one" -> -1
      [] result = "zero" -> 0
      [] result = "wheel" -> WheelSource

\* the accessor a called on an event with type tag type_ and payload field v
Accessor(a, type_, v) ==
    LET gate == IF a.gated THEN require_event_type(type_, a.retval, a.permitted)
                ELSE [outcome |-> "pass", ret |-> a.retval]
    IN IF gate.outcome = "pass"
       THEN [outcome |-> "return", ret |-> AccessorBody(a.result, v)]
       ELSE gate

\* a consumer calls a typed accessor on an event record
AccessorCall ==
    /\ Alive /\ AppTurn
    /\ \E a \in Accessors, type_ \in EventTypes, v \in Payloads :
          LET r == Accessor(a, type_, v)
          IN /\ lastCall' = Call(a.name, [type |-> type_, field |-> v], r.ret)
             /\ pc' = IF r.outcome = "abort" THEN "aborted" ELSE pc
    /\ UNCHANGED <<qvars, evars, gvars, refcount, sources, kq, source_destroy_list,
                   kev, pass, ub>>

(* --------------------------- specifications ---------------------------- *)
\* the queue under posting and draining
NextQueue ==
    \/ Len(seats) = 0 /\ SeatInit
    \/ Len(devices) = 0 /\ DeviceAttach(1, "/dev/wsmouse")
    \/ pointer_notify_motion(1)
    \/ libinput_get_event

SpecQueue == Init /\ [][NextQueue]_vars

\* event records allocated in a run of SpecLife
MaxLifeEvents == 2
\* devices attached in a run of SpecLife
MaxLifeDevices == 1
\* event records allocated in a run of SpecCount
MaxKeyEvents == 5
\* event records allocated in a run of SpecCap
MaxCapEvents == 2

\* event records allocated in a run of SpecSeats
MaxSeatEvents == 3

\* event records allocated in a run of SpecKeyQueue
MaxKeyQueueEvents == 6

\* event records allocated in a run of SpecShared
MaxSharedEvents == 4

\* event records allocated in a run of SpecStale
MaxStaleEvents == 2

\* event records allocated in a run of SpecRefs
MaxRefEvents == 1

\* the ownership graph: devices, the events referencing them, destruction
NextLife ==
    \/ Len(seats) = 0 /\ SeatInit
    \/ Len(devices) < MaxLifeDevices /\ DeviceAttach(1, "/dev/wsmouse")
    \/ \E d \in 1..MaxLifeDevices : Len(evt) < MaxLifeEvents /\ pointer_notify_motion(d)
    \/ libinput_get_event
    \/ \E e \in 1..MaxLifeEvents : libinput_event_destroy(e)
    \/ \E d \in 1..MaxLifeDevices : DeviceRef(d)
    \/ \E d \in 1..MaxLifeDevices : DeviceUnref(d)
    \/ SeatUnref(1)
    \/ LibinputUnref

SpecLife == Init /\ [][NextLife]_vars

\* the press-count table under key and button notifications: a keyboard and
\* a pointer on one seat
NextCount ==
    \/ Len(seats) = 0 /\ SeatInit
    \/ Len(devices) = 0 /\ DeviceAttach(1, "/dev/wskbd")
    \/ Len(devices) = 1 /\ DeviceAttach(1, "/dev/wsmouse")
    \/ \E d \in 1..MaxDevices, st \in States :
          Len(evt) < MaxKeyEvents /\ keyboard_notify_key(d, KEY_MAX, st)
    \/ \E d \in 1..MaxDevices, st \in States :
          Len(evt) < MaxKeyEvents /\ pointer_notify_button(d, BTN_LEFT, st)

SpecCount == Init /\ [][NextCount]_vars

\* the capability gate of the notify primitives: a keyboard, then a pointer
\* or a device that is neither
NextCap ==
    \/ Len(seats) = 0 /\ SeatInit
    \/ Len(devices) = 0 /\ DeviceAttach(1, "/dev/wskbd")
    \/ \E n \in {"/dev/wsmouse", "/dev/other"} : Len(devices) = 1 /\ DeviceAttach(1, n)
    \/ \E d \in 1..MaxDevices, st \in States :
          Len(evt) < MaxCapEvents /\ keyboard_notify_key(d, KEY_MAX, st)
    \/ \E d \in 1..MaxDevices, st \in States :
          Len(evt) < MaxCapEvents /\ pointer_notify_button(d, BTN_LEFT, st)
    \/ \E d \in 1..MaxDevices : Len(evt) < MaxCapEvents /\ pointer_notify_motion(d)
    \/ libinput_get_event

SpecCap == Init /\ [][NextCap]_vars

\* the source registry and the dispatch pass
NextSrc ==
    \/ AddFd
    \/ \E k \in 1..MaxSources : libinput_remove_source(k)
    \/ DispatchPoll
    \/ DispatchStep
    \/ CallbackReturn
    \/ DispatchDone
    \/ LibinputRef
    \/ LibinputUnref

SpecSrc == Init /\ [][NextSrc]_vars

\* the source registry and the dispatch pass when the thread keeps running:
\* libinput_dispatch goes on through its loop, and every callback returns
SpecSrcFair ==
    /\ SpecSrc
    /\ WF_vars(DispatchStep)
    /\ WF_vars(CallbackReturn)
    /\ WF_vars(DispatchDone)

\* several seats: keyboards attached to the seats in turn (the first two to
\* seat 1, the next to seat 2), key notifications by each, and the final unref
NextSeats ==
    \/ SeatInit
    \/ \E s \in 1..MaxSeats :
          /\ s = IF Len(devices) < 2 THEN 1 ELSE 2
          /\ DeviceAttach(s, "/dev/wskbd")
    \/ \E d \in 1..MaxDevices, st \in States :
          Len(evt) < MaxSeatEvents /\ keyboard_notify_key(d, KEY_MAX, st)
    \/ LibinputUnref

SpecSeats == Init /\ [][NextSeats]_vars

\* key events through the queue: one keyboard notifies presses and releases
\* of one key while the application drains
NextKeyQueue ==
    \/ Len(seats) = 0 /\ SeatInit
    \/ Len(devices) = 0 /\ DeviceAttach(1, "/dev/wskbd")
    \/ \E st \in States :
          Len(evt) < MaxKeyQueueEvents /\ keyboard_notify_key(1, KEY_MAX, st)
    \/ libinput_get_event

SpecKeyQueue == Init /\ [][NextKeyQueue]_vars

\* a keyboard and a pointer of one seat notifying the same numeric code:
\* key BTN_LEFT on the keyboard, button BTN_LEFT on the pointer
NextShared ==
    \/ Len(seats) = 0 /\ SeatInit
    \/ Len(devices) = 0 /\ DeviceAttach(1, "/dev/wskbd")
    \/ Len(devices) = 1 /\ DeviceAttach(1, "/dev/wsmouse")
    \/ \E st \in States :
          Len(evt) < MaxSharedEvents /\ keyboard_notify_key(1, BTN_LEFT, st)
    \/ \E st \in States :
          Len(evt) < MaxSharedEvents /\ pointer_notify_button(2, BTN_LEFT, st)

SpecShared == Init /\ [][NextShared]_vars

\* devices that go while their presses are counted: two keyboards of one
\* seat press and release a key, the application drains and destroys the
\* events and releases the devices, and the context may be destroyed
NextStale ==
    \/ Len(seats) = 0 /\ SeatInit
    \/ Len(devices) < 2 /\ DeviceAttach(1, "/dev/wskbd")
    \/ \E d \in 1..2, st \in States :
          Len(evt) < MaxStaleEvents /\ keyboard_notify_key(d, KEY_MAX, st)
    \/ libinput_get_event
    \/ \E e \in 1..MaxStaleEvents : libinput_event_destroy(e)
    \/ \E d \in 1..2 : DeviceUnref(d)
    \/ LibinputUnref

SpecStale == Init /\ [][NextStale]_vars

\* reference counting of the context, a seat and a device, with an event in
\* the queue and a source on the pending list for the unrefs to leave alone
NextRefs ==
    \/ Len(seats) = 0 /\ SeatInit
    \/ Len(devices) = 0 /\ DeviceAttach(1, "/dev/wsmouse")
    \/ Len(evt) < MaxRefEvents /\ pointer_notify_motion(1)
    \/ Len(sources) = 0 /\ AddFd
    \/ libinput_remove_source(1)
    \/ SeatRef(1)
    \/ SeatUnref(1)
    \/ DeviceRef(1)
    \/ DeviceUnref(1)
    \/ LibinputRef
    \/ LibinputUnref
    \/ LibinputUnrefNull

SpecRefs == Init /\ [][NextRefs]_vars

\* event records allocated in a run of SpecGraph
MaxGraphEvents == 1

\* one seat and its devices under the reference operations of their holders,
\* the context staying alive
NextGraph ==
    \/ Len(seats) = 0 /\ SeatInit
    \/ Len(devices) < MaxLifeDevices /\ DeviceAttach(1, "/dev/wsmouse")
    \/ \E d \in 1..MaxLifeDevices : Len(evt) < MaxGraphEvents /\ pointer_notify_motion(d)
    \/ libinput_get_event
    \/ \E e \in 1..MaxGraphEvents : libinput_event_destroy(e)
    \/ SeatRef(1)
    \/ SeatUnref(1)
    \/ \E d \in 1..MaxLifeDevices : DeviceRef(d)
    \/ \E d \in 1..MaxLifeDevices : DeviceUnref(d)

SpecGraph == Init /\ [][NextGraph]_vars

\* devices attached in a run of SpecTeardown
MaxTeardownDevices == 2
\* event records allocated in a run of SpecTeardown
MaxTeardownEvents == 2

\* the destruction of the context with events queued, devices attached that
\* their creator may already have released, and sources pending destruction
NextTeardown ==
    \/ Len(seats) = 0 /\ SeatInit
    \/ Len(devices) < MaxTeardownDevices /\ DeviceAttach(1, "/dev/wsmouse")
    \/ \E d \in 1..MaxTeardownDevices :
          Len(evt) < MaxTeardownEvents /\ pointer_notify_motion(d)
    \/ \E d \in 1..MaxTeardownDevices : DeviceUnref(d)
    \/ AddFd
    \/ \E k \in 1..MaxSources : libinput_remove_source(k)
    \/ LibinputUnref

SpecTeardown == Init /\ [][NextTeardown]_vars

\* peeking at and draining a queue of events of several types
NextPeek ==
    \/ Len(seats) = 0 /\ SeatInit
    \/ Len(devices) = 0 /\ DeviceAttach(1, "/dev/wskbd")
    \/ Len(devices) = 1 /\ DeviceAttach(1, "/dev/wsmouse")
    \/ \E st \in States : Len(evt) < MaxCapEvents /\ keyboard_notify_key(1, KEY_MAX, st)
    \/ Len(evt) < MaxCapEvents /\ pointer_notify_motion(2)
    \/ libinput_next_event_type
    \/ libinput_get_event

SpecPeek == Init /\ [][NextPeek]_vars

\* the typed accessors called on event records of every type
NextAccess == AccessorCall

SpecAccess == Init /\ [][NextAccess]_vars

(* -------------------------------- claims ------------------------------- *)
\* C1: the handles returned by libinput_get_event are a prefix of the handles
\* successfully posted, and the rest of them is exactly what is still pending,
\* in order: nothing is lost, reordered or returned twice, across any growth.
C1_FifoOrder == drained \o Pending = posted

\* C1 witness: the array doubled twice and every posted event was drained
C1_Witness ==
    /\ events_len = 4 * InitialEventsLen
    /\ Len(posted) > 2 * InitialEventsLen
    /\ drained = posted

\* C2: a post that grows the array doubles it and leaves the pending events in
\* their order with the new event last, wherever the head cursor is.
C2_GrowthKeepsOrder ==
    [][events_len' # events_len =>
          /\ events_count = events_len /\ events_in = events_out
          /\ events_len' = 2 * events_len
          /\ Pending' = Append(Pending, posted'[Len(posted')])]_vars

\* C2 witness: capacity 4, 4 posted, 2 drained, 3 more posted: the array grew
\* while wrapped (head = tail = 2) and the head segment now sits at its end
C2_Witness ==
    /\ events_len = 2 * InitialEventsLen
    /\ Len(posted) = 7 /\ Len(drained) = 2
    /\ events_out = 6 /\ events_in = 3
    /\ Pending = <<3, 4, 5, 6, 7>>

\* the events of device d that are posted and not yet destroyed
LiveEvents(d) ==
    {e \in DOMAIN evt : evt[e].device = d /\ evst[e] \in {"queued", "held"}}

\* C3: a device referenced by a live event (queued, or returned and not yet
\* destroyed) has a positive reference count and is not freed.
C3_LiveEventKeepsDevice ==
    \A e \in DOMAIN evt :
        evst[e] \in {"queued", "held"} =>
            /\ devices[evt[e].device].st = "live"
            /\ devices[evt[e].device].refcount > 0

\* C4: when the caller drops its reference while events of the device are still
\* queued, the device stays allocated and on its seat's list; a device without
\* caller references that live events keep alive is freed only by the
\* destruction of the last of those events (by the consumer after draining, or
\* by the final libinput_unref draining the queue).
C4_FreedAtLastEventDestroy ==
    [][\A d \in DOMAIN devices :
          /\ (/\ lastCall'.op = "libinput_device_unref" /\ lastCall'.arg = d
              /\ \E e \in LiveEvents(d) : evst[e] = "queued")
                => /\ devices'[d].st = "live"
                   /\ \E i \in DOMAIN seats'[devices[d].seat].devices_list :
                          seats'[devices[d].seat].devices_list[i] = d
          /\ (/\ devices[d].st = "live" /\ devices'[d].st = "freed"
              /\ devices[d].ext = 0 /\ LiveEvents(d) # {})
                => \/ /\ lastCall'.op = "libinput_event_destroy"
                      /\ LiveEvents(d) = {lastCall'.arg}
                   \/ /\ lastCall'.op = "libinput_unref"
                      /\ \A e \in LiveEvents(d) : evst[e] = "queued"]_vars

\* the event record a notification created in this step, if any
NewEvent == IF Len(evt') = Len(evt) + 1 THEN {Len(evt')} ELSE {}

\* C5: no stored count and no reported count is ever negative, and a release
\* notified while the stored count is zero leaves the table as it is and
\* reports zero.
C5_NoUnderflow ==
    /\ [](/\ \A s \in DOMAIN seats : \A c \in Codes : seats[s].button_count[c] >= 0
          /\ \A e \in DOMAIN evt : evt[e].seat_count >= 0)
    /\ [][\A e \in NewEvent :
            LET s == devices[evt'[e].device].seat
            IN (/\ evt'[e].type \in {"KEYBOARD_KEY", "POINTER_BUTTON"}
                /\ evt'[e].state = "RELEASED"
                /\ seats[s].button_count[evt'[e].code] = 0)
                  => /\ seats'[s].button_count = seats[s].button_count
                     /\ evt'[e].seat_count = 0]_vars

\* C5 witness: the first notification of a run is a release, and it reported 0
C5_Witness ==
    /\ Len(evt) >= 2
    /\ evt[1].state = "RELEASED" /\ evt[1].seat_count = 0
    /\ evt[2].state = "RELEASED" /\ evt[2].seat_count = 0
    /\ evt[2].code = evt[1].code

\* C6: every key or button notification of a capable device stores and reports
\* previous+1 on a press and max(previous-1, 0) on a release.
C6_ReportsStoredCount ==
    [][\A e \in NewEvent :
          LET s == devices[evt'[e].device].seat
              c == evt'[e].code
              prev == seats[s].button_count[c]
              now == IF evt'[e].state = "PRESSED" THEN prev + 1
                     ELSE IF prev > 0 THEN prev - 1 ELSE 0
          IN evt'[e].type \in {"KEYBOARD_KEY", "POINTER_BUTTON"}
                => /\ evt'[e].seat_count = now
                   /\ seats'[s].button_count = [seats[s].button_count EXCEPT ![c] = now]]_vars

\* C6 witness: two presses of a button then three releases reported 1, 2, 1, 0, 0
C6_Witness ==
    /\ Len(evt) = 5
    /\ \A e \in 1..5 : evt[e].type = "POINTER_BUTTON" /\ evt[e].code = BTN_LEFT
    /\ [e \in 1..5 |-> evt[e].state]
          = <<"PRESSED", "PRESSED", "RELEASED", "RELEASED", "RELEASED">>
    /\ [e \in 1..5 |-> evt[e].seat_count] = <<1, 2, 1, 0, 0>>

\* the device lacks the capability the notify primitive op requires
LacksCapability(d, op) ==
    \/ op = "keyboard_notify_key" /\ devices[d].devname # "/dev/wskbd"
    \/ op \in {"pointer_notify_motion", "pointer_notify_button"}
          /\ devices[d].devname # "/dev/wsmouse"

\* C7: a notify primitive called on a device without the required capability
\* posts nothing: queue, event records, devices and seats are as before, and
\* nothing undefined happens.
C7_MismatchPostsNothing ==
    [][(/\ lastCall'.op \in {"keyboard_notify_key", "pointer_notify_motion",
                             "pointer_notify_button"}
        /\ LacksCapability(lastCall'.arg, lastCall'.op))
          => /\ UNCHANGED <<qvars, evars, gvars, ub>>
             /\ lastCall'.ret = 0]_vars

\* C7 witness: a key notification on a pointer device was rejected with an
\* event pending in the queue
C7_Witness ==
    /\ lastCall.op = "keyboard_notify_key" /\ lastCall.ret = 0
    /\ devices[lastCall.arg].devname = "/dev/wsmouse"
    /\ events_count > 0

\* the sources on the destroy-pending list
PendingSources == {source_destroy_list[i] : i \in DOMAIN source_destroy_list}

\* C8: libinput_remove_source leaves the source allocated, with descriptor -1,
\* on the destroy-pending list; no source record that was registered is freed
\* while a readiness result of the pass is unprocessed or a callback runs, and
\* the dispatch loop never touches a freed source.
C8_RemoveDefersFree ==
    /\ []("source_use_after_free" \notin ub)
    /\ [][/\ lastCall'.op = "libinput_remove_source"
             => /\ sources'[lastCall'.arg].st = "live"
                /\ sources'[lastCall'.arg].fd = FdInactive
                /\ lastCall'.arg \in PendingSources'
          /\ \A k \in DOMAIN sources :
                (sources[k].st = "live" /\ sources'[k].st = "freed")
                   => (pc = "idle" \/ (pc = "loop" /\ kev = <<>>))]_vars

\* C8 witness: a source was removed by its own callback and is still allocated
C8_Witness ==
    /\ pc = "callback"
    /\ lastCall.op = "libinput_remove_source" /\ lastCall.arg = Head(kev)
    /\ sources[Head(kev)].st = "live"

\* C9: the callback libinput_dispatch invokes belongs to a source that is
\* registered: its descriptor is not -1 and it is not pending destruction.
C9_NoCallbackAfterRemove ==
    [][lastCall'.op = "source_dispatch" /\ pc = "loop"
          => /\ sources[lastCall'.arg].st = "live"
             /\ sources[lastCall'.arg].fd # FdInactive
             /\ lastCall'.arg \notin PendingSources]_vars

\* C9 witness: a pass invokes a callback while another source is unregistered
C9_Witness ==
    /\ pc = "callback" /\ lastCall.op = "source_dispatch"
    /\ \E k \in DOMAIN sources : sources[k].fd = FdInactive

\* C10: a dispatch call that returns 0 leaves the destroy-pending list empty
\* with every source that was on it freed once; no source is freed twice.
C10_PendingFreedOnce ==
    /\ [](\A k \in DOMAIN sources : sources[k].nfree <= 1)
    /\ [][(lastCall'.op = "libinput_dispatch" /\ lastCall'.ret = 0)
            => /\ source_destroy_list' = <<>>
               /\ \A k \in PendingSources :
                     sources'[k].st = "freed" /\ sources'[k].nfree = 1]_vars

\* C10 witness: a dispatch call returned 0 after freeing a removed source
C10_Witness ==
    /\ lastCall.op = "libinput_dispatch" /\ lastCall.ret = 0
    /\ \E k \in DOMAIN sources :
          sources[k].fd = FdInactive /\ sources[k].st = "freed" /\ sources[k].nfree = 1

\* how often the pass invoked the callback of source k
Invocations(k) == Cardinality({i \in DOMAIN pass.invoked : pass.invoked[i] = k})

\* C11: when a libinput_dispatch call returns 0, it has invoked the callback of
\* every source that was readable when it polled and is still active exactly
\* once, and no other callback, however many sources were readable at once.
C11_EachReadyInvokedOnce ==
    [][(lastCall'.op = "libinput_dispatch" /\ lastCall'.ret = 0)
          => \A k \in DOMAIN sources :
                /\ Invocations(k) <= 1
                /\ k \notin pass.ready => Invocations(k) = 0
                /\ (k \in pass.ready /\ sources[k].fd # FdInactive)
                      => Invocations(k) = 1]_vars

\* C12: a seat to which a device that is not destroyed belongs has a positive
\* reference count and is not freed, and no reference operation of a holder
\* runs into undefined behaviour.
C12_SeatOutlivesDevices ==
    /\ ub = {}
    /\ \A d \in DOMAIN devices :
          devices[d].st = "live"
             => /\ seats[devices[d].seat].st = "live"
                /\ seats[devices[d].seat].refcount > 0

\* C12 witness: the caller released its last reference on a seat that a live
\* device belongs to
C12_Witness ==
    /\ lastCall.op = "libinput_seat_unref"
    /\ \E d \in DOMAIN devices :
          /\ devices[d].st = "live"
          /\ seats[devices[d].seat].ext = 0
          /\ lastCall.arg = devices[d].seat

\* C13: a device record is freed only in a step that decrements its reference
\* count from 1 to 0, whatever the operation, and so is a seat record.
C13_DestroyedOnlyAtZero ==
    [][/\ \A d \in DOMAIN devices :
             (devices[d].st = "live" /\ devices'[d].st = "freed")
                => (devices[d].refcount = 1 /\ devices'[d].refcount = 0)
       /\ \A s \in DOMAIN seats :
             (seats[s].st = "live" /\ seats'[s].st = "freed")
                => (seats[s].refcount = 1 /\ seats'[s].refcount = 0)]_vars

\* the step is the libinput_unref call that drops the last context reference
FinalUnref == lastCall'.op = "libinput_unref" /\ lastCall'.ret = 0

\* what the final libinput_unref leaves behind: every event that was queued is
\* freed, every seat and device is freed, the sources are freed after the
\* seats and devices, the queue and the destroy-pending list are empty
TeardownComplete(log) ==
    /\ \A k \in DOMAIN Pending : \E i \in DOMAIN log : log[i] = Freed("event", Pending[k], 0)
    /\ \A d \in DOMAIN devices : devices'[d].st = "freed"
    /\ \A s \in DOMAIN seats : seats'[s].st = "freed"
    /\ \A k \in PendingSources : sources'[k].st = "freed"
    /\ \A i, j \in DOMAIN log :
          (log[i].kind \in {"device", "seat"} /\ log[j].kind = "source") => i < j
    /\ events_count' = 0
    /\ source_destroy_list' = <<>>

C15_GetEvent ==
    [][lastCall'.op = "libinput_get_event"
          => /\ UNCHANGED <<events, events_len, events_in, gvars, refcount, ub>>
             /\ IF events_count = 0
                THEN /\ lastCall'.ret = 0
                     /\ UNCHANGED <<events_count, events_out, evars>>
                ELSE /\ lastCall'.ret = events[events_out + 1]
                     /\ lastCall'.ret # 0
                     /\ events_out' = (events_out + 1) % events_len
                     /\ events_count' = events_count - 1]_vars

\* C15 witness: four events were drained, the head cursor wrapped to slot 0,
\* and a further call on the now empty queue returned NULL
C15_Witness ==
    /\ lastCall.op = "libinput_get_event" /\ lastCall.ret = 0
    /\ events_count = 0
    /\ events_len = InitialEventsLen
    /\ Len(drained) = InitialEventsLen
    /\ events_out = 0

\* C16: libinput_next_event_type changes neither the queue nor the event
\* records nor any reference count; it returns NONE on an empty queue and the
\* type of the head event otherwise, and a libinput_get_event that follows it
\* returns NULL after NONE and an event of the reported type otherwise.
C16_PeekType ==
    [][/\ lastCall'.op = "libinput_next_event_type"
             => /\ UNCHANGED <<qvars, evars, gvars, refcount, ub>>
                /\ lastCall'.ret = IF events_count = 0 THEN "NONE"
                                   ELSE evt[Head(Pending)].type
       /\ (lastCall.op = "libinput_next_event_type" /\ lastCall'.op = "libinput_get_event")
             => IF lastCall.ret = "NONE" THEN lastCall'.ret = 0
                ELSE lastCall'.ret # 0 /\ evt[lastCall'.ret].type = lastCall.ret]_vars

\* C16 witness: with a key event queued before a motion event, the type of
\* the key event was reported
C16_Witness ==
    /\ lastCall.op = "libinput_next_event_type"
    /\ events_count = 2
    /\ evt[Pending[1]].type = "KEYBOARD_KEY" /\ evt[Pending[2]].type = "POINTER_MOTION"
    /\ lastCall.ret = "KEYBOARD_KEY"

\* C17: a successful post adds one to the reference count of the event's
\* device, libinput_get_event leaves every count alone, libinput_event_destroy
\* takes one from the count of the event's device; so a device that is alive
\* or referenced by a live event is allocated and its count is the references
\* its holders have plus the number of live events referencing it.
C17_CountIsHoldersPlusEvents ==
    /\ [](\A d \in DOMAIN devices :
             (devices[d].st = "live" \/ LiveEvents(d) # {})
                => /\ devices[d].st = "live"
                   /\ devices[d].refcount = devices[d].ext + Cardinality(LiveEvents(d)))
    /\ [][/\ \A e \in NewEvent :
                evst'[e] = "queued"
                   => devices'[evt'[e].device].refcount
                         = devices[evt'[e].device].refcount + 1
          /\ lastCall'.op = "libinput_get_event" => devices' = devices
          /\ lastCall'.op = "libinput_event_destroy"
                => LET d == evt[lastCall'.arg].device
                   IN /\ devices[d].st = "live"
                      /\ devices'[d].refcount = devices[d].refcount - 1
                      /\ ub' = {}]_vars

\* the value an accessor returns when it returns the payload field holding v:
\* the event itself for a cast, the time in milliseconds for a get_time
StoredField(a, v) ==
    CASE a.result = "event" -> EventPtr
      [] a.result = "ms" -> us2ms(v)
      [] OTHER -> v

\* C18: an accessor called on an event whose type is neither NONE nor one of
\* the types it applies to returns its neutral value, does not abort and
\* changes nothing; called on an event of a type it applies to, it returns
\* the stored payload field.
C18_MismatchIsNeutral ==
    [][lastCall'.op \in AccessorNames
          => LET a == AccessorNamed(lastCall'.op)
                 type_ == lastCall'.arg.type
             IN /\ (type_ # "NONE" /\ type_ \notin a.permitted)
                      => /\ lastCall'.ret = 0
                         /\ pc' = pc
                         /\ UNCHANGED <<qvars, evars, gvars, refcount, ub>>
                /\ type_ \in a.permitted
                      => lastCall'.ret = StoredField(a, lastCall'.arg.field)]_vars

\* C19: a typed accessor aborts exactly when its type gate is handed an event
\* whose type tag is NONE; no other accessor/type combination aborts, and the
\* process is aborted in no other way.
C19_AbortOnlyOnNone ==
    /\ [](pc = "aborted" => lastCall.op \in AccessorNames /\ lastCall.arg.type = "NONE")
    /\ [][lastCall'.op \in AccessorNames
            => LET a == AccessorNamed(lastCall'.op)
               IN (pc' = "aborted") <=> (a.gated /\ lastCall'.arg.type = "NONE")]_vars

\* C19 witness: libinput_event_pointer_get_dx aborted on an event tagged NONE
C19_Witness ==
    /\ pc = "aborted"
    /\ lastCall.op = "libinput_event_pointer_get_dx"
    /\ lastCall.arg.type = "NONE"

\* C20: a post whose reallocation fails happens on a full queue only, drops
\* the event and leaves the array, the capacity, the count, both cursors, the
\* pending events and their order and every reference count as they were;
\* nothing undefined happens.
C20_FailedGrowthDropsEvent ==
    [][\A e \in NewEvent :
          evst'[e] = "dropped"
             => /\ events_count = events_len
                /\ UNCHANGED <<events, events_len, events_count, events_in, events_out>>
                /\ Pending' = Pending
                /\ posted' = posted
                /\ devices' = devices
                /\ ub' = {}]_vars

\* C20 witness: the last notification was dropped on a full queue whose head
\* cursor had advanced, and the four pending events are still there
C20_Witness ==
    /\ evst # <<>> /\ evst[Len(evst)] = "dropped"
    /\ lastCall.op = "pointer_notify_motion" /\ lastCall.ret = Len(evt)
    /\ events_count = events_len
    /\ events_out > 0
    /\ Len(Pending) = InitialEventsLen

\* the source records that are allocated
LiveSources == {k \in DOMAIN sources : sources[k].st = "live"}

\* C21: a libinput_add_fd call in which the multiplexer rejects the
\* descriptor returns NULL, has freed the record it allocated exactly once,
\* registers nothing and puts nothing on the destroy-pending list: the live
\* source records are those of before the call.
C21_RejectedAddFdLeaksNothing ==
    [][(lastCall'.op = "libinput_add_fd" /\ lastCall'.ret = 0 /\ lastCall'.arg # 0)
          => /\ sources'[lastCall'.arg].st = "freed"
             /\ sources'[lastCall'.arg].nfree = 1
             /\ LiveSources' = LiveSources
             /\ kq' = kq
             /\ source_destroy_list' = source_destroy_list]_vars

\* C21 witness: the second registration was rejected while the first source
\* stays registered
C21_Witness ==
    /\ lastCall.op = "libinput_add_fd" /\ lastCall.ret = 0 /\ lastCall.arg = 2
    /\ kq = {1} /\ LiveSources = {1}

\* C22: a libinput_dispatch call whose poll fails returns a negative value in
\* the very step that polled: it invokes no callback, posts no event, reclaims
\* no source and retrieves no readiness result.
C22_FailedPollReturnsError ==
    [][(lastCall'.op = "libinput_dispatch" /\ lastCall'.ret # 0)
          => /\ lastCall'.ret < 0
             /\ pc = "idle" /\ pc' = "idle"
             /\ UNCHANGED <<qvars, evars, gvars, refcount, sources, kq,
                            source_destroy_list, kev, pass, ub>>]_vars

\* C22 witness: a poll failed while one source was registered and another
\* was waiting on the destroy-pending list, where it still is
C22_Witness ==
    /\ lastCall.op = "libinput_dispatch" /\ lastCall.ret < 0
    /\ kq # {}
    /\ source_destroy_list # <<>>
    /\ \A k \in PendingSources : sources[k].st = "live"

\* C23: a libinput_dispatch call that has polled returns: from every state
\* inside the call (in its loop or in a callback) the call reaches its end.
C23_DispatchReturns == (pc \in {"loop", "callback"}) ~> (pc = "idle")

\* C23 witness: a call returned 0 after it had invoked a callback, and one
\* returned 0 with no source ready
C23_Witness ==
    /\ pc = "idle"
    /\ lastCall.op = "libinput_dispatch" /\ lastCall.ret = 0
    /\ pass.invoked # <<>>

\* the count of code on seat s after the first n accepted key and button
\* notifications, those that created an event record, and none of the others
RECURSIVE AcceptedCount(_, _, _)
AcceptedCount(n, s, code) ==
    IF n = 0 THEN 0
    ELSE LET prev == AcceptedCount(n - 1, s, code)
             r == evt[n]
         IN IF /\ r.type \in {"KEYBOARD_KEY", "POINTER_BUTTON"}
               /\ devices[r.device].seat = s /\ r.code = code
            THEN IF r.state = "PRESSED" THEN prev + 1
                 ELSE IF prev = 0 THEN 0 ELSE prev - 1
            ELSE prev

\* the step is a key or button notification rejected for the capability
RejectedKeyOrButton ==
    /\ lastCall'.op \in {"keyboard_notify_key", "pointer_notify_button"}
    /\ LacksCapability(lastCall'.arg, lastCall'.op)

\* C24: a key or button notification on a device without the capability
\* leaves every entry of every seat's table as it was; the tables are at all
\* times what the accepted notifications alone produce, and an accepted press
\* reports one more than the accepted notifications before it produce.
C24_RejectionLeavesTable ==
    /\ [](\A s \in DOMAIN seats : \A code \in Codes :
             seats[s].button_count[code] = AcceptedCount(Len(evt), s, code))
    /\ [][RejectedKeyOrButton
            => \A s \in DOMAIN seats : seats'[s].button_count = seats[s].button_count]_vars
    /\ [][(/\ lastCall'.op \in {"keyboard_notify_key", "pointer_notify_button"}
           /\ Len(evt') = Len(evt) + 1
           /\ evt'[Len(evt')].state = "PRESSED")
            => evt'[Len(evt')].seat_count
                 = AcceptedCount(Len(evt), devices[lastCall'.arg].seat,
                                 evt'[Len(evt')].code) + 1]_vars

\* C24 witness: a press of KEY_MAX notified on the pointer was rejected while
\* the seat's table holds one press of it by the keyboard
C24_Witness ==
    /\ lastCall.op = "keyboard_notify_key" /\ lastCall.ret = 0
    /\ devices[lastCall.arg].devname # "/dev/wskbd"
    /\ seats[1].button_count[KEY_MAX] = 1
    /\ Len(evt) = 1

\* C25: the count a key or button event reports is the count of its code
\* over the accepted notifications of all devices of its seat up to it, and of
\* no device of another seat; a notification changes no table but that of the
\* notifying device's seat.
C25_CountsArePerSeat ==
    /\ [](\A e \in DOMAIN evt :
             evt[e].type \in {"KEYBOARD_KEY", "POINTER_BUTTON"}
                => evt[e].seat_count
                     = AcceptedCount(e, devices[evt[e].device].seat, evt[e].code))
    /\ [][lastCall'.op \in {"keyboard_notify_key", "pointer_notify_button"}
            => \A t \in DOMAIN seats :
                  t # devices[lastCall'.arg].seat
                     => seats'[t].button_count = seats[t].button_count]_vars

\* C25 witness: a press by the first keyboard of seat 1 reported 1, a press of
\* the same key by the keyboard of seat 2 reported 1, and a press by the
\* second keyboard of seat 1 then reported 2
C25_Witness ==
    /\ Len(evt) = 3 /\ Len(devices) = 3
    /\ <<devices[1].seat, devices[2].seat, devices[3].seat>> = <<1, 1, 2>>
    /\ [e \in 1..3 |-> evt[e].device] = <<1, 3, 2>>
    /\ \A e \in 1..3 : evt[e].code = KEY_MAX /\ evt[e].state = "PRESSED"
    /\ [e \in 1..3 |-> evt[e].seat_count] = <<1, 1, 2>>
    /\ seats[1].button_count[KEY_MAX] = 2 /\ seats[2].button_count[KEY_MAX] = 1

\* C26: the record of an event is written when the event is created and by
\* no later step: whatever is notified, posted, relocated or drained
\* afterwards, its type, device, code, state and seat count stay, so what is
\* read from a drained event is what its notification attached.
C26_EventsAreImmutable ==
    /\ [][\A e \in DOMAIN evt : evt'[e] = evt[e]]_vars
    /\ [][\A e \in NewEvent :
            evt'[e].type = "KEYBOARD_KEY"
               => /\ evt'[e].device = lastCall'.arg
                  /\ evt'[e].seat_count
                       = seats'[devices[evt'[e].device].seat].button_count[evt'[e].code]]_vars
    /\ [](\A e \in DOMAIN evt :
             evt[e].type = "KEYBOARD_KEY"
                => evt[e].seat_count
                     = AcceptedCount(e, devices[evt[e].device].seat, evt[e].code))

\* C26 witness: the first press was drained after four more presses; a sixth
\* press then made the wrapped array grow and relocate; the drained event
\* still reads count 1 while the seat's table holds 6
C26_Witness ==
    /\ Len(evt) = 6 /\ events_len = 2 * InitialEventsLen
    /\ drained = <<1, 2>> /\ Pending = <<3, 4, 5, 6>>
    /\ events_out > events_in
    /\ evt[1] = [type |-> "KEYBOARD_KEY", device |-> 1, code |-> KEY_MAX,
                 state |-> "PRESSED", seat_count |-> 1]
    /\ seats[1].button_count[KEY_MAX] = 6

\* the seats a libinput_unref call destroyed, in the order it destroyed them
SeatsOf(log) ==
    LET IsSeat(r) == r.kind = "seat"
        sl == SelectSeq(log, IsSeat)
    IN [i \in DOMAIN sl |-> sl[i].id]

\* seats are numbered in the order of their libinput_seat_init calls
Ascending(sl) == \A i, j \in DOMAIN sl : i < j => sl[i] < sl[j]
Descending(sl) == \A i, j \in DOMAIN sl : i < j => sl[i] > sl[j]

\* C27 as stated: the context's seat list, read from its head, holds the seats
\* in the order of their libinput_seat_init calls, and the final libinput_unref
\* destroys them in that order, the first initialised first.
C27_SeatsInInsertionOrder ==
    /\ [](Ascending(seat_list))
    /\ [][FinalUnref => (SeatsOf(lastCall'.arg) = seat_list /\ Ascending(seat_list))]_vars

\* C27: libinput_seat_init links the seat at the head of the context's list,
\* so the list read from its head holds the seats in the reverse of the order
\* of their libinput_seat_init calls, and the final libinput_unref destroys
\* them in that order, the last initialised first.
C27_SeatsInReverseInsertionOrder ==
    /\ [](Descending(seat_list))
    /\ [][lastCall'.op = "libinput_seat_init"
            => seat_list' = <<lastCall'.arg>> \o seat_list]_vars
    /\ [][FinalUnref => SeatsOf(lastCall'.arg) = seat_list]_vars

\* C27 witness: two seats were initialised, each got a keyboard, and the final
\* libinput_unref destroyed seat 2 before seat 1
C27_Witness ==
    /\ lastCall.op = "libinput_unref" /\ lastCall.ret = 0
    /\ Len(seats) = 2 /\ Len(devices) = 3
    /\ SeatsOf(lastCall.arg) = <<2, 1>>

\* C28: while an event that is queued, or drained and not yet destroyed,
\* references a device, the seat of that device is allocated and has a
\* positive reference count, whatever references the application dropped.
C28_LiveEventKeepsSeat ==
    \A e \in DOMAIN evt :
        evst[e] \in {"queued", "held"} =>
            /\ seats[devices[evt[e].device].seat].st = "live"
            /\ seats[devices[evt[e].device].seat].refcount > 0

\* C29: the count is between 0 and the capacity, both cursors are below the
\* capacity, the tail cursor is the head cursor plus the count modulo the
\* capacity, the array has one slot per unit of capacity, and the count slots
\* from the head cursor hold the queued events, each of them once.
C29_QueueShape ==
    /\ 0 <= events_count /\ events_count <= events_len
    /\ 0 <= events_in /\ events_in < events_len
    /\ 0 <= events_out /\ events_out < events_len
    /\ events_in = (events_out + events_count) % events_len
    /\ Len(events) = events_len
    /\ \A i, j \in DOMAIN Pending : i # j => Pending[i] # Pending[j]
    /\ {Pending[i] : i \in DOMAIN Pending} = {e \in DOMAIN evst : evst[e] = "queued"}

\* C29 witness: the array grew while wrapped and one more event was posted:
\* six events pending from slot 6 around to slot 3 of eight
C29_Witness ==
    /\ events_len = 2 * InitialEventsLen
    /\ events_out = 6 /\ events_in = 4 /\ events_count = 6
    /\ Pending = <<3, 4, 5, 6, 7, 8>>

\* C30: the capacity is 4 before the first post and always 4 times a power
\* of two; a step changes it only if it is a post on a full queue, and then
\* doubles it; a post on a queue that is not full and libinput_get_event leave
\* it, so it never decreases, whatever is drained.
C30_CapacityOnlyDoubles ==
    /\ [](/\ evt = <<>> => events_len = InitialEventsLen
          /\ \E k \in 0..MaxEvents : events_len = InitialEventsLen * 2^k)
    /\ [][events_len' # events_len
            => /\ NewEvent # {} /\ lastCall'.op = "pointer_notify_motion"
               /\ events_count = events_len
               /\ events_len' = 2 * events_len]_vars
    /\ [][(NewEvent # {} /\ events_count < events_len) => events_len' = events_len]_vars
    /\ [][lastCall'.op = "libinput_get_event" => events_len' = events_len]_vars
    /\ [][events_len' >= events_len]_vars

\* C30 witness: five events were posted, the array doubled, all five were
\* drained, and a further libinput_get_event on the empty queue found the
\* capacity still 8
C30_Witness ==
    /\ lastCall.op = "libinput_get_event" /\ lastCall.ret = 0
    /\ events_count = 0 /\ Len(drained) = InitialEventsLen + 1
    /\ events_len = 2 * InitialEventsLen

\* the key and button events of code c notified by devices of seat s
EventsOfCode(s, c) ==
    {e \in DOMAIN evt : /\ evt[e].type \in {"KEYBOARD_KEY", "POINTER_BUTTON"}
                        /\ devices[evt[e].device].seat = s
                        /\ evt[e].code = c}

\* the latest of them
LastOfCode(s, c) == CHOOSE e \in EventsOfCode(s, c) : \A f \in EventsOfCode(s, c) : f <= e

\* C31: a seat has one entry per numeric code, whether the code was notified
\* as a key or as a button: the entry holds the count the latest key or button
\* event of that code reported, and a key or button event reports the entry
\* as the previous event of that code left it, of either kind, plus one on a
\* press and minus one (not below zero) on a release.
C31_KeysAndButtonsShareEntry ==
    /\ [](\A s \in DOMAIN seats : \A c \in Codes :
             seats[s].button_count[c]
                = IF EventsOfCode(s, c) = {} THEN 0 ELSE evt[LastOfCode(s, c)].seat_count)
    /\ [][\A e \in NewEvent :
            evt'[e].type \in {"KEYBOARD_KEY", "POINTER_BUTTON"}
               => LET s == devices[evt'[e].device].seat
                      c == evt'[e].code
                      prev == IF EventsOfCode(s, c) = {} THEN 0
                              ELSE evt[LastOfCode(s, c)].seat_count
                  IN evt'[e].seat_count
                        = IF evt'[e].state = "PRESSED" THEN prev + 1
                          ELSE IF prev = 0 THEN 0 ELSE prev - 1]_vars

\* C31 witness: a key press of code BTN_LEFT reported 1, a button press of
\* BTN_LEFT on the pointer of the same seat reported 2, the key's release
\* reported 1, and the button's release then reported 0
C31_Witness ==
    /\ Len(evt) = 4
    /\ \A e \in 1..4 : evt[e].code = BTN_LEFT
    /\ [e \in 1..4 |-> evt[e].type]
          = <<"KEYBOARD_KEY", "POINTER_BUTTON", "KEYBOARD_KEY", "POINTER_BUTTON">>
    /\ [e \in 1..4 |-> evt[e].state] = <<"PRESSED", "PRESSED", "RELEASED", "RELEASED">>
    /\ [e \in 1..4 |-> evt[e].seat_count] = <<1, 2, 1, 0>>
    /\ devices[1].seat = devices[2].seat

\* the devices a step frees
FreedDevices == {d \in DOMAIN devices : devices[d].st = "live" /\ devices'[d].st = "freed"}

\* C32: a step that frees a device, by its last unref or by the destruction
\* of the context, leaves every entry of every seat's table as it was; the
\* presses the device notified stay counted, so a press notified afterwards
\* by another device of the seat reports one more than all accepted
\* notifications before it produce, those of freed devices included.
C32_DestroyKeepsCounts ==
    /\ [][FreedDevices # {}
            => \A s \in DOMAIN seats : seats'[s].button_count = seats[s].button_count]_vars
    /\ [][\A e \in NewEvent :
            (/\ evt'[e].type = "KEYBOARD_KEY" /\ evt'[e].state = "PRESSED"
             /\ \E d \in DOMAIN devices : devices[d].st = "freed")
               => /\ evt'[e].seat_count
                       = AcceptedCount(Len(evt), devices[evt'[e].device].seat, evt'[e].code) + 1
                  /\ evt'[e].seat_count
                       = seats[devices[evt'[e].device].seat].button_count[evt'[e].code] + 1]_vars

\* C32 witness: keyboard 1 pressed the key (count 1), its event was drained
\* and destroyed and the keyboard released, so it was freed; keyboard 2 of the
\* same seat then pressed the key and the press reported 2
C32_Witness ==
    /\ lastCall.op = "keyboard_notify_key" /\ lastCall.arg = 2 /\ lastCall.ret = 2
    /\ Len(evt) = 2
    /\ evt[1].device = 1 /\ evt[1].state = "PRESSED" /\ evt[1].seat_count = 1
    /\ evt[2].device = 2 /\ evt[2].state = "PRESSED" /\ evt[2].seat_count = 2
    /\ devices[1].st = "freed" /\ devices[2].st = "live"
    /\ seats[1].st = "live" /\ seats[1].devices_list = <<2>>

\* the step is a keyboard_notify_key or pointer_notify_button call that
\* changed an entry of some seat's table
TableUpdated ==
    /\ lastCall'.op \in {"keyboard_notify_key", "pointer_notify_button"}
    /\ \E s \in DOMAIN seats : seats'[s].button_count # seats[s].button_count

\* C33: a key or button notification that changes a table entry appends, in
\* the same call, exactly one event to the queue, and that event carries the
\* entry's new value, also when the queue has to grow; a notification whose
\* event record cannot be allocated changes neither the table nor the queue.
C33_TableAndStreamAgree ==
    /\ [][TableUpdated
            => /\ NewEvent # {}
               /\ events_count' = events_count + 1
               /\ Pending' = Append(Pending, Len(evt'))
               /\ evt'[Len(evt')].seat_count
                     = seats'[devices[lastCall'.arg].seat].button_count[evt'[Len(evt')].code]]_vars
    /\ [][(/\ lastCall'.op \in {"keyboard_notify_key", "pointer_notify_button"}
           /\ lastCall'.ret = -1)
            => UNCHANGED <<qvars, evars, seats>>]_vars

\* how often the record of kind kind with number id was freed according to log
TimesFreed(log, kind, id) ==
    Cardinality({i \in DOMAIN log : log[i].kind = kind /\ log[i].id = id})

\* C34: the final libinput_unref frees each seat on the context's list and
\* each device on a seat's list exactly once, and touches no seat it has
\* already freed, whatever references the application took or dropped before.
C34_TeardownFreesOnce ==
    /\ [][FinalUnref
            => /\ ub' \cap {"seat_use_after_free", "seat_double_free",
                            "device_use_after_free"} = {}
               /\ \A i \in DOMAIN seat_list :
                     TimesFreed(lastCall'.arg, "seat", seat_list[i]) = 1
               /\ \A i \in DOMAIN seat_list :
                     \A j \in DOMAIN seats[seat_list[i]].devices_list :
                        TimesFreed(lastCall'.arg, "device",
                                   seats[seat_list[i]].devices_list[j]) = 1]_vars

\* C35: a context, a seat and a device start with reference count 1; a ref
\* adds one and returns the object; an unref of an allocated object subtracts
\* one, returns NULL exactly if the call freed the object, which it does
\* exactly if the count reached zero, and otherwise returns the object and
\* leaves everything but the count as it was; libinput_unref(NULL) returns
\* NULL and changes nothing.
C35_RefCounting ==
    /\ [](lastCall.op = "libinput_init" => refcount = 1)
    /\ [][/\ lastCall'.op = "libinput_seat_init" => seats'[lastCall'.arg].refcount = 1
          /\ lastCall'.op = "libinput_device_init" => devices'[lastCall'.arg].refcount = 1
          /\ lastCall'.op = "libinput_ref"
                => /\ refcount' = refcount + 1 /\ lastCall'.ret = 1
                   /\ UNCHANGED <<qvars, evars, gvars, sources, kq, source_destroy_list, ub>>
          /\ lastCall'.op = "libinput_seat_ref"
                => LET s == lastCall'.arg
                   IN /\ seats'[s].refcount = seats[s].refcount + 1 /\ lastCall'.ret = s
                      /\ seats'[s].st = "live"
                      /\ UNCHANGED <<qvars, evars, devices, seat_list, refcount, ub>>
          /\ lastCall'.op = "libinput_device_ref"
                => LET d == lastCall'.arg
                   IN /\ devices'[d].refcount = devices[d].refcount + 1 /\ lastCall'.ret = d
                      /\ devices'[d].st = "live"
                      /\ UNCHANGED <<qvars, evars, seats, seat_list, refcount, ub>>]_vars
    /\ [][/\ (lastCall'.op = "libinput_seat_unref" /\ seats[lastCall'.arg].st = "live")
                => LET s == lastCall'.arg
                   IN /\ seats'[s].refcount = seats[s].refcount - 1
                      /\ (lastCall'.ret = 0) <=> (seats'[s].st = "freed")
                      /\ (lastCall'.ret = 0) <=> (seats'[s].refcount = 0)
                      /\ lastCall'.ret # 0
                            => /\ lastCall'.ret = s
                               /\ seats'[s].button_count = seats[s].button_count
                               /\ seats'[s].devices_list = seats[s].devices_list
                               /\ UNCHANGED <<qvars, evars, devices, seat_list, refcount, ub>>
          /\ (lastCall'.op = "libinput_device_unref" /\ devices[lastCall'.arg].st = "live")
                => LET d == lastCall'.arg
                   IN /\ devices'[d].refcount = devices[d].refcount - 1
                      /\ (lastCall'.ret = 0) <=> (devices'[d].st = "freed")
                      /\ (lastCall'.ret = 0) <=> (devices'[d].refcount = 0)
                      /\ lastCall'.ret # 0
                            => /\ lastCall'.ret = d
                               /\ devices'[d].seat = devices[d].seat
                               /\ UNCHANGED <<qvars, evars, seats, seat_list, refcount, ub>>
          /\ lastCall'.op = "libinput_unref"
                => /\ refcount' = refcount - 1
                   /\ (lastCall'.ret = 0) <=> (refcount' = 0)
                   /\ lastCall'.ret # 0
                         => /\ lastCall'.ret = 1
                            /\ UNCHANGED <<qvars, evars, gvars, sources, kq,
                                           source_destroy_list, ub>>
          /\ lastCall'.op = "libinput_unref(NULL)"
                => /\ lastCall'.ret = 0
                   /\ UNCHANGED <<qvars, evars, svars, gvars, refcount, ub>>]_vars

\* C35 witness: with an event queued, a source pending and seat and device
\* each referenced twice, an unref of the context from count 2 returned the
\* context
C35_Witness ==
    /\ lastCall.op = "libinput_unref" /\ lastCall.ret = 1 /\ refcount = 1
    /\ events_count = 1 /\ source_destroy_list = <<1>>
    /\ Len(devices) = 1 /\ devices[1].st = "live" /\ devices[1].ext = 2
    /\ devices[1].refcount = 3
    /\ seats[1].st = "live" /\ seats[1].ext = 2 /\ seats[1].refcount = 3

\* the sources registered with libinput_add_fd and not passed to
\* libinput_remove_source
RegisteredSources ==
    {k \in DOMAIN sources : sources[k].st = "live" /\ sources[k].fd # FdInactive}

\* the source records a step frees
FreedInStep == {k \in DOMAIN sources : sources[k].st = "live" /\ sources'[k].st = "freed"}

\* C36 as stated: the final libinput_unref frees exactly the sources on the
\* destroy-pending list; a registered source that was never removed is on no
\* list of the context, is left alone by libinput_dispatch, and after the
\* final libinput_unref is still allocated and still registered.
C36_UnrefLeavesRegistered ==
    /\ [](RegisteredSources \cap PendingSources = {})
    /\ [][lastCall'.op = "libinput_dispatch"
            => \A k \in RegisteredSources : sources'[k] = sources[k] /\ k \in kq']_vars
    /\ [][FinalUnref
            => /\ FreedInStep = PendingSources
               /\ \A k \in RegisteredSources : sources'[k] = sources[k] /\ k \in kq']_vars

\* C36: the final libinput_unref frees exactly the sources on the
\* destroy-pending list; a registered source that was never removed is on no
\* list of the context, is left alone by libinput_dispatch, and is not freed
\* by the final libinput_unref, which leaves its record and its descriptor as
\* they were; its registration goes with the multiplexer, which that call
\* closes.
C36_UnrefFreesPendingOnly ==
    /\ [](RegisteredSources \cap PendingSources = {})
    /\ [](Alive => kq = RegisteredSources)
    /\ [][lastCall'.op = "libinput_dispatch"
            => \A k \in RegisteredSources : sources'[k] = sources[k] /\ k \in kq']_vars
    /\ [][FinalUnref
            => /\ FreedInStep = PendingSources
               /\ \A k \in RegisteredSources : sources'[k] = sources[k]
               /\ kq' = {}]_vars

\* C36 witness: the context was destroyed with source 1 removed and source 2
\* still registered: source 1 was freed, source 2 is still allocated with its
\* descriptor
C36_Witness ==
    /\ lastCall.op = "libinput_unref" /\ lastCall.ret = 0
    /\ Len(sources) = 2
    /\ sources[1].st = "freed" /\ sources[1].fd = FdInactive /\ sources[1].nfree = 1
    /\ sources[2].st = "live" /\ sources[2].fd # FdInactive
    /\ source_destroy_list = <<>>

====
